---- MODULE Spec2Model ----
(***************************************************************************)
(* A model of the Enigma simulator and of its ciphertext-only analysis     *)
(* (src/src/enigma.rs, src/src/analysis.rs, src/src/analysis/fitness.rs).  *)
(*                                                                         *)
(* Letters are u8 values 0..25 inside the machine and code points 65..90   *)
(* ('A'..'Z') at its interface.  u8 arithmetic wraps modulo 2^8, as in a   *)
(* release build.  A panic is a result whose field ok is FALSE.            *)
(***************************************************************************)
EXTENDS Integers, Sequences, FiniteSets, TLC

VARIABLES
    \* one Rotor and one substitution through it (Rotor::forward / backward)
    rotor, sub_dir, sub_in, sub_out,
    \* one reflector and a letter sent through it, then sent through it again
    reflector, refl_in, refl_out, refl_back, refl_n,
    \* a connection list, the Plugboard built from it, the connections
    \* generated from that plugboard and the Plugboard built from those
    connections, pb_stage, plugboard, regenerated, plugboard2,
    \* a key and a reflector, the Enigma built from them, the message typed
    \* into it and what it put out; then (pass 2) a second Enigma built from
    \* the same key and reflector and what it makes of that output
    ekey, ereflector, enigma, message, encrypted, pass, decrypted,
    \* find_plugs: its arguments (fp_key is its local copy of the key), its
    \* locals, the number of completed loop iterations, where it is (at the
    \* top of the loop, inside find_plug, after a break, returned, panicked)
    \* and what it returned
    fp_cipher, fp_f, fp_max_plugs, fp_key, fp_plugs, fp_max_fitness,
    fp_best_key, fp_iter, fp_pc, fp_result,
    \* find_plug: its locals unplugged, plugs, optimal_plug and max_fitness,
    \* and the pair (i, j) its loops stand at
    fpl_unplugged, fpl_plugs, fpl_optimal_plug, fpl_max_fitness, fpl_i, fpl_j,
    \* find_rotor_configurations: its arguments, the Plugboard made of the
    \* plugboard argument, the list of rotor triples, what the closure
    \* returned for each triple, the key set after sort and truncate, and
    \* where it is
    fa_cipher, fa_rotors, fa_connections, fa_required_keys, fa_f, fa_plugboard,
    fa_triples, fa_results, fa_key_set, fa_pc,
    \* the locals of the closure for each triple (how far its sweep has come,
    \* its running best, its scratch buffer), and which of several elements
    \* with equal scores sort_unstable_by puts first
    fa_workers, fa_sort_ties,
    \* the caller of find_ring_settings: the numbers it makes the rotors of,
    \* the setter it calls on the key (or none), the key; find_ring_settings:
    \* its other arguments, its key, the rotor its loop is at, where it is,
    \* what it returned
    fr_args, fr_adjust, fr_input, fr_cipher, fr_f, fr_key, fr_rotor, fr_pc, fr_result,
    \* find_ring_setting: its key, its locals, the index its loop is at, and
    \* the Enigma of the last trial after the decryption
    frs_key, frs_start_pos, frs_optimal_ring_setting, frs_max_fitness, frs_i,
    frs_enigma,
    \* IoCFitness::score: the text (written as runs of a letter), whether the
    \* build checks integer overflow, the locals histogram and total, the
    \* score returned, and where it is
    ic_text, ic_overflow_checks, ic_histogram, ic_total, ic_score, ic_pc

rotorVars == <<rotor, sub_dir, sub_in, sub_out>>
reflVars == <<reflector, refl_in, refl_out, refl_back, refl_n>>
plugVars == <<connections, pb_stage, plugboard, regenerated, plugboard2>>
enigmaVars == <<ekey, ereflector, enigma, message, encrypted, pass, decrypted>>
fpVars == <<fp_cipher, fp_f, fp_max_plugs, fp_key, fp_plugs, fp_max_fitness,
           fp_best_key, fp_iter, fp_pc, fp_result>>
fplVars == <<fpl_unplugged, fpl_plugs, fpl_optimal_plug, fpl_max_fitness, fpl_i, fpl_j>>
faVars == <<fa_cipher, fa_rotors, fa_connections, fa_required_keys, fa_f,
           fa_plugboard, fa_triples, fa_results, fa_key_set, fa_pc, fa_workers,
           fa_sort_ties>>
frVars == <<fr_args, fr_adjust, fr_input, fr_cipher, fr_f, fr_key, fr_rotor, fr_pc,
           fr_result>>
frsVars == <<frs_key, frs_start_pos, frs_optimal_ring_setting, frs_max_fitness, frs_i,
            frs_enigma>>
icVars == <<ic_text, ic_overflow_checks, ic_histogram, ic_total, ic_score, ic_pc>>
vars == <<rotorVars, reflVars, plugVars, enigmaVars, fpVars, fplVars, faVars, frVars,
         frsVars, icVars>>

\* what each part of the model leaves alone
notRotor == <<reflVars, plugVars, enigmaVars, fpVars, fplVars, faVars, frVars, frsVars, icVars>>
notRefl == <<rotorVars, plugVars, enigmaVars, fpVars, fplVars, faVars, frVars, frsVars, icVars>>
notPlug == <<rotorVars, reflVars, enigmaVars, fpVars, fplVars, faVars, frVars, frsVars, icVars>>
notEnigma == <<rotorVars, reflVars, plugVars, fpVars, fplVars, faVars, frVars, frsVars, icVars>>
notFp == <<rotorVars, reflVars, plugVars, enigmaVars, faVars, frVars, frsVars, icVars>>
notFa == <<rotorVars, reflVars, plugVars, enigmaVars, fpVars, fplVars, frVars, frsVars, icVars>>
notFr == <<rotorVars, reflVars, plugVars, enigmaVars, fpVars, fplVars, faVars, icVars>>
notIc == <<rotorVars, reflVars, plugVars, enigmaVars, fpVars, fplVars, faVars, frVars,
          frsVars>>

----------------------------------------------------------------------------
(* u8 arithmetic *)

U8(x) == x % 256

\* u32 arithmetic.  A number of up to 75 bits is written as five digits of
\* 15 bits, the lowest first, so that no step leaves the integers of the
\* model checker; a u32 has its third digit below 4 and no higher one
RECURSIVE carry(_, _, _)
carry(d, k, c) ==
    IF k > 5 THEN <<>>
    ELSE <<(d[k] + c) % 32768>> \o carry(d, k + 1, (d[k] + c) \div 32768)

\* the digits of x, 0 <= x < 2^31
wide(x) == carry(<<x, 0, 0, 0, 0>>, 1, 0)

\* the number of the digits, if it is below 2^31
narrow(w) == w[1] + 32768 * w[2] + 32768 * 32768 * w[3]

\* a * b of two u32, exactly
wide_mul(a, b) ==
    carry(<<a[1] * b[1],
            a[1] * b[2] + a[2] * b[1],
            a[1] * b[3] + a[2] * b[2] + a[3] * b[1],
            a[2] * b[3] + a[3] * b[2],
            a[3] * b[3]>>, 1, 0)

\* the sum of the numbers of the sequence terms: digit by digit, then the
\* carries
RECURSIVE digit_total(_, _, _)
digit_total(terms, k, i) ==
    IF i > Len(terms) THEN 0 ELSE terms[i][k] + digit_total(terms, k, i + 1)

wide_sum(terms) ==
    carry(<<digit_total(terms, 1, 1), digit_total(terms, 2, 1), digit_total(terms, 3, 1),
            digit_total(terms, 4, 1), digit_total(terms, 5, 1)>>, 1, 0)

\* modulo 2^32
U32(w) == <<w[1], w[2], w[3] % 4, 0, 0>>

\* below 2^32
fits_u32(w) == w[3] < 4 /\ w[4] = 0 /\ w[5] = 0

\* v - 1 of a u32 v without overflow checks: 2^32 - 1 for v = 0
wrapping_dec(v) == IF v >= 1 THEN wide(v - 1) ELSE <<32767, 32767, 3, 0, 0>>

\* u8::overflowing_sub: the wrapped difference and the borrow flag
overflowing_sub(a, b) == [val |-> U8(a - b), over |-> a < b]

byte_A == 65

----------------------------------------------------------------------------
(* RotorId *)

RotorI == 0
RotorII == 1
RotorIII == 2
RotorIV == 3
RotorV == 4
RotorVI == 5
RotorVII == 6
RotorVIII == 7
RotorIdentity == 8

RotorIds == {RotorI, RotorII, RotorIII, RotorIV, RotorV, RotorVI, RotorVII,
             RotorVIII, RotorIdentity}

is_at_notch(id, position) ==
    CASE id = RotorI -> position = 16
      [] id = RotorII -> position = 4
      [] id = RotorIII -> position = 21
      [] id = RotorIV -> position = 9
      [] id = RotorV -> position = 25
      [] id = RotorVI -> position = 12 \/ position = 25
      [] id = RotorVII -> position = 12 \/ position = 25
      [] id = RotorVIII -> position = 12 \/ position = 25
      [] id = RotorIdentity -> position = 0

\* RotorId::chars: the byte strings, as code points
chars(s) ==
    CASE s = RotorI -> <<69,75,77,70,76,71,68,81,86,90,78,84,79,87,89,72,88,85,83,80,65,73,66,82,67,74>>
      [] s = RotorII -> <<65,74,68,75,83,73,82,85,88,66,76,72,87,84,77,67,81,71,90,78,80,89,70,86,79,69>>
      [] s = RotorIII -> <<66,68,70,72,74,76,67,80,82,84,88,86,90,78,89,69,73,87,71,65,75,77,85,83,81,79>>
      [] s = RotorIV -> <<69,83,79,86,80,90,74,65,89,81,85,73,82,72,88,76,78,70,84,71,75,68,67,77,87,66>>
      [] s = RotorV -> <<86,90,66,82,71,73,84,89,85,80,83,68,78,72,76,88,65,87,77,74,81,79,70,69,67,75>>
      [] s = RotorVI -> <<74,80,71,86,79,85,77,70,89,81,66,69,78,72,90,82,68,75,65,83,88,76,73,67,84,87>>
      [] s = RotorVII -> <<78,90,74,72,71,82,67,88,77,89,83,87,66,79,85,70,65,73,86,76,80,69,75,81,68,84>>
      [] s = RotorVIII -> <<70,75,81,72,84,76,88,79,67,66,74,83,80,68,90,82,65,77,69,87,78,73,85,89,71,86>>
      [] s = RotorIdentity -> <<65,66,67,68,69,70,71,72,73,74,75,76,77,78,79,80,81,82,83,84,85,86,87,88,89,90>>

\* wiring[i] = chars[i] - b'A' (arrays are indexed from 0, sequences from 1)
gen_forward_wiring(s) == [i \in 0..25 |-> chars(s)[i + 1] - byte_A]

\* the loop of gen_backward_wiring from index i on
RECURSIVE gen_backward_loop(_, _, _)
gen_backward_loop(forward_wiring, backwards_wiring, i) ==
    IF i < 26
    THEN gen_backward_loop(forward_wiring,
                           [backwards_wiring EXCEPT ![forward_wiring[i]] = i],
                           i + 1)
    ELSE backwards_wiring

\* a slip: the table is copied, not inverted
gen_backward_wiring_copied(s) == gen_forward_wiring(s)

gen_backward_wiring(s) ==
    gen_backward_loop(gen_forward_wiring(s), [i \in 0..25 |-> 0], 0)

ROTOR_FORWARD_WIRING == [id \in RotorIds |-> gen_forward_wiring(id)]

ROTOR_BACKWARD_WIRING == [id \in RotorIds |-> gen_backward_wiring(id)]

forward_wiring(id) == ROTOR_FORWARD_WIRING[id]

backward_wiring(id) == ROTOR_BACKWARD_WIRING[id]

----------------------------------------------------------------------------
(* Rotor *)

\* Rotor::new: both assertions, then the struct (ok = FALSE for a panic)
RotorNew(id, rotor_position, ring_setting) ==
    IF rotor_position \in 0..25 /\ ring_setting \in 0..25
    THEN [ok |-> TRUE, id |-> id, rotor_position |-> rotor_position,
          ring_setting |-> ring_setting]
    ELSE [ok |-> FALSE]

\* if over { val + 26 } else { val }, of a result of overflowing_sub
add_on_borrow(r) == IF r.over THEN U8(r.val + 26) ELSE r.val

\* shift = pos - ring, plus 26 on borrow
encypher_shift(pos, ring) == add_on_borrow(overflowing_sub(pos, ring))

\* if v > 25 { v - 26 } else { v }
sub_above_25(v) == IF v \in 0..25 THEN v ELSE U8(v - 26)

\* idx = c + shift, minus 26 above 25
encypher_idx(c, shift) == sub_above_25(U8(c + shift))

\* a slip: the borrow of the last subtraction is not made good
encypher_no_wrap(c, pos, ring, mapping) ==
    LET shift == encypher_shift(pos, ring)
        val == mapping[encypher_idx(c, shift)]
    IN  overflowing_sub(val, shift).val

\* val = mapping[idx]; val - shift, plus 26 on borrow
encypher_val(c, shift, mapping) ==
    add_on_borrow(overflowing_sub(mapping[encypher_idx(c, shift)], shift))

encypher(c, pos, ring, mapping) == encypher_val(c, encypher_shift(pos, ring), mapping)

RotorForward(r, c) ==
    encypher(c, r.rotor_position, r.ring_setting, forward_wiring(r.id))

RotorBackward(r, c) ==
    encypher(c, r.rotor_position, r.ring_setting, backward_wiring(r.id))

----------------------------------------------------------------------------
(* ReflectorId *)

ReflectorB == 0
ReflectorC == 1
ReflectorDefault == 2

ReflectorIds == {ReflectorB, ReflectorC, ReflectorDefault}

\* a slip: the third reflector wired straight through
reflector_chars_straight(self) ==
    CASE self = ReflectorB -> <<89,82,85,72,81,83,76,68,80,88,78,71,79,75,77,73,69,66,70,90,67,87,86,74,65,84>>
      [] self = ReflectorC -> <<70,86,80,74,73,65,79,89,69,68,82,90,88,87,71,67,84,75,85,81,83,66,78,77,72,76>>
      [] self = ReflectorDefault -> <<65,66,67,68,69,70,71,72,73,74,75,76,77,78,79,80,81,82,83,84,85,86,87,88,89,90>>

\* the byte strings of ReflectorId::gen_wiring, as code points
reflector_chars(self) ==
    CASE self = ReflectorB -> <<89,82,85,72,81,83,76,68,80,88,78,71,79,75,77,73,69,66,70,90,67,87,86,74,65,84>>
      [] self = ReflectorC -> <<70,86,80,74,73,65,79,89,69,68,82,90,88,87,71,67,84,75,85,81,83,66,78,77,72,76>>
      [] self = ReflectorDefault -> <<90,89,88,87,86,85,84,83,82,81,80,79,78,77,76,75,74,73,72,71,70,69,68,67,66,65>>

\* wiring[i] -= b'A'
gen_wiring(self) == [i \in 0..25 |-> reflector_chars(self)[i + 1] - byte_A]

REFLECTOR_WIRING == [id \in ReflectorIds |-> gen_wiring(id)]

ReflectorForward(self, c) == REFLECTOR_WIRING[self][c]

----------------------------------------------------------------------------
(* Plugboard.  A connection is a pair <<c1, c2>> of code points. *)

is_ascii_uppercase(ch) == ch \in 65..90

identity == [i \in 0..25 |-> i]

\* a slip: only the first letter of a pair is looked up in seen
duplicate_plug_first_only(seen, c1, c2) == seen[c1]

\* the duplicate test of decode_plugboard
duplicate_plug(seen, c1, c2) == seen[c1] \/ seen[c2]

\* the loop of decode_plugboard from connection k on
RECURSIVE decode_loop(_, _, _, _)
decode_loop(conns, k, mapping, seen) ==
    IF k > Len(conns)
    THEN [ok |-> TRUE, mapping |-> mapping]
    ELSE LET rc1 == conns[k][1]
             rc2 == conns[k][2]
             c1 == rc1 - byte_A
             c2 == rc2 - byte_A
         IN  IF ~is_ascii_uppercase(rc1) \/ ~is_ascii_uppercase(rc2)
             THEN [ok |-> FALSE]
             ELSE IF duplicate_plug(seen, c1, c2)
             THEN [ok |-> FALSE]
             ELSE decode_loop(conns, k + 1,
                              [[mapping EXCEPT ![c1] = c2] EXCEPT ![c2] = c1],
                              [[seen EXCEPT ![c1] = TRUE] EXCEPT ![c2] = TRUE])

decode_plugboard(conns) ==
    IF conns = <<>>
    THEN [ok |-> TRUE, mapping |-> identity]
    ELSE decode_loop(conns, 1, identity, [i \in 0..25 |-> FALSE])

\* Plugboard::new: the plugboard, or ok = FALSE for a panic
PlugboardNew(conns) ==
    LET d == decode_plugboard(conns)
    IN  IF d.ok THEN [ok |-> TRUE, wiring |-> d.mapping] ELSE [ok |-> FALSE]

PlugboardForward(pb, c) == pb.wiring[c]

\* true where unplugged
unplugged(pb) == [idx \in 0..25 |-> idx = pb.wiring[idx]]

\* a slip: the second half of a pair is not skipped
skip_connection_unseen(wiring, seen, idx) == idx = wiring[idx]

\* the continue test of generate_connections
skip_connection(wiring, seen, idx) == idx = wiring[idx] \/ seen[idx]

\* the loop of generate_connections from index idx on
RECURSIVE generate_loop(_, _, _, _)
generate_loop(wiring, idx, seen, conns) ==
    IF idx > 25
    THEN conns
    ELSE IF skip_connection(wiring, seen, idx)
    THEN generate_loop(wiring, idx + 1, seen, conns)
    ELSE generate_loop(wiring, idx + 1,
                       [[seen EXCEPT ![idx] = TRUE] EXCEPT ![wiring[idx]] = TRUE],
                       Append(conns, <<U8(idx + byte_A), U8(wiring[idx] + byte_A)>>))

generate_connections(pb) ==
    generate_loop(pb.wiring, 0, [i \in 0..25 |-> FALSE], <<>>)

\* a result not computed yet
Unset == [ok |-> FALSE, unset |-> TRUE]

----------------------------------------------------------------------------
(* EnigmaKey and Enigma *)

EnigmaKeyNew(left_rotor, middle_rotor, right_rotor, pb) ==
    [left_rotor |-> left_rotor, middle_rotor |-> middle_rotor,
     right_rotor |-> right_rotor, plugboard |-> pb]

set_plugboard(key, pb) == [key EXCEPT !.plugboard = pb]

EnigmaNew(key, refl) ==
    [left_rotor |-> key.left_rotor, middle_rotor |-> key.middle_rotor,
     right_rotor |-> key.right_rotor, reflector |-> refl,
     plugboard |-> key.plugboard]

\* position + 1, minus 26 above 25
\* a slip: the position goes on from 25 to 26
turnover_unwrapped(r) == [r EXCEPT !.rotor_position = U8(r.rotor_position + 1)]

turnover(r) == [r EXCEPT !.rotor_position = sub_above_25(U8(r.rotor_position + 1))]

\* a slip: an odometer, the left rotor carried by the middle rotor's notch
\* without the middle rotor stepping too
rotate_odometer(e) ==
    LET carried ==
            IF is_at_notch(e.middle_rotor.id, e.middle_rotor.rotor_position)
            THEN [e EXCEPT !.left_rotor = turnover(e.left_rotor)]
            ELSE IF is_at_notch(e.right_rotor.id, e.right_rotor.rotor_position)
            THEN [e EXCEPT !.middle_rotor = turnover(e.middle_rotor)]
            ELSE e
    IN  [carried EXCEPT !.right_rotor = turnover(e.right_rotor)]

rotate(e) ==
    LET stepped ==
            IF is_at_notch(e.middle_rotor.id, e.middle_rotor.rotor_position)
            THEN [e EXCEPT !.middle_rotor = turnover(e.middle_rotor),
                           !.left_rotor = turnover(e.left_rotor)]
            ELSE IF is_at_notch(e.right_rotor.id, e.right_rotor.rotor_position)
            THEN [e EXCEPT !.middle_rotor = turnover(e.middle_rotor)]
            ELSE e
    IN  [stepped EXCEPT !.right_rotor = turnover(e.right_rotor)]

\* a slip: the way back goes forward through the right rotor
substitute_forward_twice(e, c) ==
    PlugboardForward(e.plugboard,
      RotorForward(e.right_rotor,
        RotorBackward(e.middle_rotor,
          RotorBackward(e.left_rotor,
            ReflectorForward(e.reflector,
              RotorForward(e.left_rotor,
                RotorForward(e.middle_rotor,
                  RotorForward(e.right_rotor,
                    PlugboardForward(e.plugboard, c)))))))))

\* a slip: the letter turns back at the left rotor without the reflector
substitute_unreflected(e, c) ==
    PlugboardForward(e.plugboard,
      RotorBackward(e.right_rotor,
        RotorBackward(e.middle_rotor,
          RotorBackward(e.left_rotor,
            RotorForward(e.left_rotor,
              RotorForward(e.middle_rotor,
                RotorForward(e.right_rotor,
                  PlugboardForward(e.plugboard, c))))))))

\* the path of a letter through the (already rotated) machine, innermost
\* first: plugboard, right, middle, left rotor, reflector, left, middle,
\* right rotor backward, plugboard
substitute(e, c) ==
    PlugboardForward(e.plugboard,
      RotorBackward(e.right_rotor,
        RotorBackward(e.middle_rotor,
          RotorBackward(e.left_rotor,
            ReflectorForward(e.reflector,
              RotorForward(e.left_rotor,
                RotorForward(e.middle_rotor,
                  RotorForward(e.right_rotor,
                    PlugboardForward(e.plugboard, c)))))))))

\* Enigma::encrypt on the character ch: the machine after the call and the
\* character returned (ok = FALSE for the assertion's panic)
encrypt_rotated(rotated, ch) ==
    [ok |-> TRUE, enigma |-> rotated,
     out |-> U8(substitute(rotated, U8(ch - byte_A)) + byte_A)]

encrypt(e, ch) ==
    IF ~is_ascii_uppercase(ch)
    THEN [ok |-> FALSE]
    ELSE encrypt_rotated(rotate(e), ch)

\* cipher.chars().map(|c| e.encrypt(c)) collected into buf, from the
\* character after the ones already in buf on (ok = FALSE for a panic), and
\* the machine after the last call
RECURSIVE encrypt_all(_, _, _)

\* r is what encrypt returned for the character after the ones in buf
encrypt_push(r, text, buf) ==
    IF ~r.ok
    THEN [ok |-> FALSE]
    ELSE encrypt_all(r.enigma, text, Append(buf, r.out))

encrypt_all(e, text, buf) ==
    IF Len(buf) >= Len(text)
    THEN [ok |-> TRUE, text |-> buf, enigma |-> e]
    ELSE encrypt_push(encrypt(e, text[Len(buf) + 1]), text, buf)

----------------------------------------------------------------------------
(* Fitness functions.  An f32 score is the fraction num / den (den > 0) or *)
(* NaN; every comparison with NaN is false.                                 *)

F32(num, den) == [nan |-> FALSE, num |-> num, den |-> den]

NaN == [nan |-> TRUE, num |-> 0, den |-> 1]

f32_gt(a, b) == ~a.nan /\ ~b.nan /\ a.num * b.den > b.num * a.den

f32_lt(a, b) == ~a.nan /\ ~b.nan /\ a.num * b.den < b.num * a.den

\* a / b in f32: 0 / 0 is NaN (b is never negative here and a / 0 with a # 0
\* does not occur)
f32_div(a, b) == IF b = 0 THEN NaN ELSE F32(a, b)

\* the searches start from -1e30; the model writes it as a number below
\* every score its fitness functions return
NEG_1E30 == -1000000

MinFitness == F32(NEG_1E30, 1)

\* the fitness functions the searches are run with
KnownPlainTextFitness(plaintext) == [kind |-> "KnownPlainText", plaintext |-> plaintext, n |-> 0]

IoCFitness == [kind |-> "IoC", plaintext |-> <<>>, n |-> 0]

\* NgramFitness::<N>::new of no lines: every entry is log10(EPSILON)
NgramFitness(n) == [kind |-> "Ngram", plaintext |-> <<>>, n |-> n]

\* log10(3e-10), in thousandths
LOG10_EPSILON_MILLI == -9523

Min(a, b) == IF a < b THEN a ELSE b

\* KnownPlainTextFitness::score: the matches over the zipped bytes
known_plaintext_score(plaintext, text) ==
    F32(Cardinality({k \in 1..Min(Len(plaintext), Len(text)) : plaintext[k] = text[k]}), 1)

histogram(text) ==
    [i \in 0..25 |-> Cardinality({k \in 1..Len(text) : text[k] - byte_A = i})]

\* v * (v - 1) in u32 without overflow checks: for v = 0 the factor wraps
\* to 2^32 - 1 and the product, modulo 2^32, is 0
ioc_term(v) == U32(wide_mul(wide(v), wrapping_dec(v)))

RECURSIVE ioc_terms(_, _)
ioc_terms(hist, i) ==
    IF i > 25 THEN <<>> ELSE <<ioc_term(hist[i])>> \o ioc_terms(hist, i + 1)

\* the same sum for counts of at most 32: every term is v * (v - 1), 0 for
\* v = 0, and the sum is below 2^15, so nothing wraps
RECURSIVE ioc_total_short(_, _)
ioc_total_short(hist, i) ==
    IF i > 25 THEN 0 ELSE hist[i] * (hist[i] - 1) + ioc_total_short(hist, i + 1)

\* the sum of the terms, in u32 without overflow checks: adding modulo
\* 2^32 at every step gives the sum modulo 2^32
ioc_total(hist) ==
    IF \A i \in 0..25 : hist[i] <= 32
    THEN wide(ioc_total_short(hist, 0))
    ELSE U32(wide_sum(ioc_terms(hist, 0)))

\* IoCFitness::score
ioc_score(text) ==
    f32_div(narrow(ioc_total(histogram(text))), Len(text) * (Len(text) - 1))

\* NgramFitness::score with the table of no lines: one entry per window of
\* n characters, none for a text shorter than n
ngram_score(n, text) ==
    LET windows == IF Len(text) >= n THEN Len(text) - n + 1 ELSE 0
    IN  F32(windows * LOG10_EPSILON_MILLI, 1000)

\* f.score(text)
score(f, text) ==
    CASE f.kind = "KnownPlainText" -> known_plaintext_score(f.plaintext, text)
      [] f.kind = "IoC" -> ioc_score(text)
      [] f.kind = "Ngram" -> ngram_score(f.n, text)

\* the text a fresh Enigma (reflector B) makes of the ciphertext, then its
\* score; a panic of encrypt is a panic of the caller
decrypt(key, cipher) == encrypt_all(EnigmaNew(key, ReflectorB), cipher, <<>>)

\* d is what decrypt returned
score_decrypted(d, f) ==
    IF d.ok THEN [ok |-> TRUE, fitness |-> score(f, d.text)] ELSE [ok |-> FALSE]

decrypt_score(key, cipher, f) == score_decrypted(decrypt(key, cipher), f)

\* the same for a key that is yet to be made: a panic of Rotor::new or of
\* Plugboard::new is a panic of the caller
key_score(key, cipher, f) ==
    IF key.left_rotor.ok /\ key.middle_rotor.ok /\ key.right_rotor.ok /\ key.plugboard.ok
    THEN decrypt_score(key, cipher, f)
    ELSE [ok |-> FALSE]

----------------------------------------------------------------------------
(* The parts of the state a specification does not use stay as they start *)

IdleRotor ==
    /\ rotor = RotorNew(RotorI, 0, 0)
    /\ sub_dir = "none"
    /\ sub_in = 0
    /\ sub_out = 0

IdleRefl ==
    /\ reflector = ReflectorB
    /\ refl_in = 0
    /\ refl_out = 0
    /\ refl_back = 0
    /\ refl_n = 0

IdlePlug ==
    /\ connections = <<>>
    /\ pb_stage = "input"
    /\ plugboard = Unset
    /\ regenerated = <<>>
    /\ plugboard2 = Unset

IdleEnigma ==
    /\ ekey = EnigmaKeyNew(RotorNew(RotorI, 0, 0), RotorNew(RotorII, 0, 0),
                           RotorNew(RotorIII, 0, 0), PlugboardNew(<<>>))
    /\ ereflector = ReflectorB
    /\ enigma = EnigmaNew(ekey, ereflector)
    /\ message = <<>>
    /\ encrypted = <<>>
    /\ pass = 1
    /\ decrypted = <<>>

IdleFp ==
    /\ fp_cipher = <<>>
    /\ fp_f = IoCFitness
    /\ fp_max_plugs = 0
    /\ fp_key = EnigmaKeyNew(RotorNew(RotorI, 0, 0), RotorNew(RotorII, 0, 0),
                             RotorNew(RotorIII, 0, 0), PlugboardNew(<<>>))
    /\ fp_plugs = <<>>
    /\ fp_max_fitness = MinFitness
    /\ fp_best_key = fp_key
    /\ fp_iter = 0
    /\ fp_pc = "loop"
    /\ fp_result = Unset
    /\ fpl_unplugged = unplugged(PlugboardNew(<<>>))
    /\ fpl_plugs = <<>>
    /\ fpl_optimal_plug = <<65, 65>>
    /\ fpl_max_fitness = MinFitness
    /\ fpl_i = 26
    /\ fpl_j = 26

IdleFa ==
    /\ fa_cipher = <<>>
    /\ fa_rotors = "Three"
    /\ fa_connections = <<>>
    /\ fa_required_keys = 0
    /\ fa_f = IoCFitness
    /\ fa_plugboard = Unset
    /\ fa_triples = <<>>
    /\ fa_results = <<>>
    /\ fa_key_set = <<>>
    /\ fa_pc = "start"
    /\ fa_workers = <<>>
    /\ fa_sort_ties = "first"

IdleFr ==
    /\ fr_args = [ids |-> <<RotorI, RotorII, RotorIII>>, positions |-> <<0, 0, 0>>,
                  rings |-> <<0, 0, 0>>]
    /\ fr_adjust = [rotor |-> "none", field |-> "none", value |-> 0]
    /\ fr_input = Unset
    /\ fr_cipher = <<>>
    /\ fr_f = IoCFitness
    /\ fr_key = Unset
    /\ fr_rotor = "right"
    /\ fr_pc = "new"
    /\ fr_result = Unset
    /\ frs_key = Unset
    /\ frs_start_pos = 0
    /\ frs_optimal_ring_setting = 0
    /\ frs_max_fitness = MinFitness
    /\ frs_i = 0
    /\ frs_enigma = Unset

IdleIc ==
    /\ ic_text = <<>>
    /\ ic_overflow_checks = FALSE
    /\ ic_histogram = [i \in 0..25 |-> 0]
    /\ ic_total = wide(0)
    /\ ic_score = NaN
    /\ ic_pc = "start"

----------------------------------------------------------------------------
(* One rotor, one substitution: every id, position, ring setting and input *)

InitRotor ==
    /\ rotor \in {RotorNew(id, p, g) : id \in RotorIds, p \in 0..25, g \in 0..25}
    /\ sub_dir = "none"
    /\ sub_in = 0
    /\ sub_out = 0
    /\ IdleRefl
    /\ IdlePlug
    /\ IdleEnigma
    /\ IdleFp
    /\ IdleFa
    /\ IdleFr
    /\ IdleIc

Forward(c) ==
    /\ sub_dir = "none"
    /\ sub_dir' = "forward"
    /\ sub_in' = c
    /\ sub_out' = RotorForward(rotor, c)
    /\ UNCHANGED <<rotor, notRotor>>

Backward(c) ==
    /\ sub_dir = "none"
    /\ sub_dir' = "backward"
    /\ sub_in' = c
    /\ sub_out' = RotorBackward(rotor, c)
    /\ UNCHANGED <<rotor, notRotor>>

NextRotor ==
    \/ \E c \in 0..25 : Forward(c)
    \/ \E c \in 0..25 : Backward(c)

SpecRotor == InitRotor /\ [][NextRotor]_vars

\* C3: forward and backward of one rotor undo each other, in both orders
RotorInverse ==
    /\ sub_dir = "forward" => RotorBackward(rotor, sub_out) = sub_in
    /\ sub_dir = "backward" => RotorForward(rotor, sub_out) = sub_in

RotorInverseWitness ==
    /\ sub_dir = "backward"
    /\ rotor.id = RotorVIII
    /\ rotor.ring_setting > rotor.rotor_position
    /\ sub_out # sub_in
    /\ RotorForward(rotor, sub_out) = sub_in

\* the wiring table the substitution went through
SubMapping ==
    IF sub_dir = "forward" THEN forward_wiring(rotor.id) ELSE backward_wiring(rotor.id)

\* C4: encypher returns (mapping[(c + s) mod 26] - s) mod 26, s = (pos - ring)
\* mod 26, with the index and the result in 0..25
EncypherFormula ==
    sub_dir # "none" =>
        LET s == (rotor.rotor_position - rotor.ring_setting) % 26
            shift == encypher_shift(rotor.rotor_position, rotor.ring_setting)
            idx == encypher_idx(sub_in, shift)
        IN  /\ shift = s
            /\ idx \in 0..25
            /\ idx = (sub_in + s) % 26
            /\ sub_out \in 0..25
            /\ sub_out = (SubMapping[(sub_in + s) % 26] - s) % 26

\* the borrow case of both subtractions: ring above position, and a table
\* entry below the shift
EncypherFormulaWitness ==
    /\ sub_dir = "forward"
    /\ rotor.ring_setting > rotor.rotor_position
    /\ LET shift == encypher_shift(rotor.rotor_position, rotor.ring_setting)
       IN  /\ sub_in + shift > 25
           /\ SubMapping[encypher_idx(sub_in, shift)] < shift

----------------------------------------------------------------------------
(* One reflector: a letter goes through it, and the result goes through it *)
(* again                                                                   *)

InitRefl ==
    /\ reflector \in ReflectorIds
    /\ refl_in = 0
    /\ refl_out = 0
    /\ refl_back = 0
    /\ refl_n = 0
    /\ IdleRotor
    /\ IdlePlug
    /\ IdleEnigma
    /\ IdleFp
    /\ IdleFa
    /\ IdleFr
    /\ IdleIc

Reflect(c) ==
    /\ refl_n = 0
    /\ refl_n' = 1
    /\ refl_in' = c
    /\ refl_out' = ReflectorForward(reflector, c)
    /\ UNCHANGED <<reflector, refl_back, notRefl>>

ReflectAgain ==
    /\ refl_n = 1
    /\ refl_n' = 2
    /\ refl_back' = ReflectorForward(reflector, refl_out)
    /\ UNCHANGED <<reflector, refl_in, refl_out, notRefl>>

NextRefl ==
    \/ \E c \in 0..25 : Reflect(c)
    \/ ReflectAgain

SpecRefl == InitRefl /\ [][NextRefl]_vars

\* C5: every reflector wiring w has w[w[x]] = x and w[x] # x
ReflectorInvolution ==
    /\ refl_n >= 1 => refl_out # refl_in /\ refl_out \in 0..25
    /\ refl_n = 2 => refl_back = refl_in

ReflectorInvolutionWitness ==
    /\ refl_n = 2
    /\ reflector = ReflectorDefault
    /\ refl_in = 12
    /\ refl_out = 13
    /\ refl_back = 12

----------------------------------------------------------------------------
(* Plugboard::new on a connection list, generate_connections on the result *)
(* and Plugboard::new on the generated list                                *)

MaxPairs == 2

\* '@', 'A'..'C', 'Y', 'Z', 'a'
PlugChars == {64, 65, 66, 67, 89, 90, 97}

InitPlug ==
    /\ connections = <<>>
    /\ pb_stage = "input"
    /\ plugboard = Unset
    /\ regenerated = <<>>
    /\ plugboard2 = Unset
    /\ IdleRotor
    /\ IdleRefl
    /\ IdleEnigma
    /\ IdleFp
    /\ IdleFa
    /\ IdleFr
    /\ IdleIc

\* the caller writes one more pair into the list
PushPair(a, b) ==
    /\ pb_stage = "input"
    /\ Len(connections) < MaxPairs
    /\ connections' = Append(connections, <<a, b>>)
    /\ UNCHANGED <<pb_stage, plugboard, regenerated, plugboard2, notPlug>>

New ==
    /\ pb_stage = "input"
    /\ plugboard' = PlugboardNew(connections)
    /\ pb_stage' = "new"
    /\ UNCHANGED <<connections, regenerated, plugboard2, notPlug>>

GenerateConnections ==
    /\ pb_stage = "new"
    /\ plugboard.ok
    /\ regenerated' = generate_connections(plugboard)
    /\ pb_stage' = "generated"
    /\ UNCHANGED <<connections, plugboard, plugboard2, notPlug>>

NewFromGenerated ==
    /\ pb_stage = "generated"
    /\ plugboard2' = PlugboardNew(regenerated)
    /\ pb_stage' = "renewed"
    /\ UNCHANGED <<connections, plugboard, regenerated, notPlug>>

NextPlug ==
    \/ \E a \in PlugChars, b \in PlugChars : PushPair(a, b)
    \/ New
    \/ GenerateConnections
    \/ NewFromGenerated

SpecPlug == InitPlug /\ [][NextPlug]_vars

\* the letters (code points) of connection k
PairLetters(conns, k) == {conns[k][1], conns[k][2]}

InvalidPair(conns) ==
    \E k \in 1..Len(conns) : \E ch \in PairLetters(conns, k) : ch \notin 65..90

SharedLetter(conns) ==
    \E j, k \in 1..Len(conns) :
        j # k /\ PairLetters(conns, j) \cap PairLetters(conns, k) # {}

\* C6: Plugboard::new panics on a character that is no uppercase letter and
\* on a letter in more than one pair; the empty list gives the identity;
\* every other list gives an involution that swaps each listed pair and
\* fixes each unlisted letter
PlugboardNewContract ==
    pb_stage # "input" =>
        /\ InvalidPair(connections) \/ SharedLetter(connections) => ~plugboard.ok
        /\ connections = <<>> => plugboard.ok /\ plugboard.wiring = identity
        /\ ~(InvalidPair(connections) \/ SharedLetter(connections)) =>
            /\ plugboard.ok
            /\ DOMAIN plugboard.wiring = 0..25
            /\ \A x \in 0..25 : plugboard.wiring[x] \in 0..25
            /\ \A x \in 0..25 : plugboard.wiring[plugboard.wiring[x]] = x
            /\ \A k \in 1..Len(connections) :
                /\ plugboard.wiring[connections[k][1] - 65] = connections[k][2] - 65
                /\ plugboard.wiring[connections[k][2] - 65] = connections[k][1] - 65
            /\ \A x \in 0..25 :
                (\A k \in 1..Len(connections) : x + 65 \notin PairLetters(connections, k))
                    => plugboard.wiring[x] = x

\* two disjoint pairs, swapped
PlugboardNewWitness ==
    /\ pb_stage = "new"
    /\ connections = <<<<65, 90>>, <<67, 66>>>>
    /\ plugboard.ok
    /\ plugboard.wiring[0] = 25
    /\ plugboard.wiring[1] = 2

\* C7: the generated connections rebuild the same wiring; each connected pair
\* is emitted once and no self-mapped letter is emitted
PlugboardRoundTrip ==
    /\ pb_stage \in {"generated", "renewed"} =>
        /\ \A k \in 1..Len(regenerated) :
            /\ regenerated[k][1] # regenerated[k][2]
            /\ plugboard.wiring[regenerated[k][1] - 65] = regenerated[k][2] - 65
        /\ \A x \in 0..25 :
            plugboard.wiring[x] # x =>
                Cardinality({k \in 1..Len(regenerated) : x + 65 \in PairLetters(regenerated, k)}) = 1
    /\ pb_stage = "renewed" =>
        /\ plugboard2.ok
        /\ plugboard2.wiring = plugboard.wiring

PlugboardRoundTripWitness ==
    /\ pb_stage = "renewed"
    /\ connections = <<<<90, 65>>, <<67, 66>>>>
    /\ regenerated = <<<<65, 90>>, <<66, 67>>>>
    /\ plugboard2.ok

----------------------------------------------------------------------------
(* A message typed into an Enigma, and its output typed into a second      *)
(* Enigma made from the same key and reflector                              *)

MaxMsgLen == 2

\* 'A', 'Z'
MsgChars == {65, 90}

\* rotor orders: the historical example, the known-answer key, the rotors
\* with two notches, three straight-through rotors, one rotor type twice
TripleSample ==
    {<<RotorI, RotorII, RotorIII>>, <<RotorII, RotorV, RotorIII>>,
     <<RotorVI, RotorVII, RotorVIII>>,
     <<RotorIdentity, RotorIdentity, RotorIdentity>>,
     <<RotorIII, RotorII, RotorII>>}

\* start positions at, one before and away from the notches of the sample
PosSample == {0, 3, 4, 12, 20, 21, 24, 25}

LeftPosSample == {0, 25}

RingSample == {<<0, 0, 0>>, <<7, 4, 19>>, <<25, 1, 24>>}

\* no plug; "AZ BC"
PlugSample == {<<>>, <<<<65, 90>>, <<66, 67>>>>}

KeySample ==
    {EnigmaKeyNew(RotorNew(t[1], lp, g[1]), RotorNew(t[2], mp, g[2]),
                  RotorNew(t[3], rp, g[3]), PlugboardNew(pl)) :
        t \in TripleSample, lp \in LeftPosSample, mp \in PosSample,
        rp \in PosSample, g \in RingSample, pl \in PlugSample}

InitEnigma ==
    /\ ekey \in KeySample
    /\ ereflector \in ReflectorIds
    /\ enigma = EnigmaNew(ekey, ereflector)
    /\ message = <<>>
    /\ encrypted = <<>>
    /\ pass = 1
    /\ decrypted = <<>>
    /\ IdleRotor
    /\ IdleRefl
    /\ IdlePlug
    /\ IdleFp
    /\ IdleFa
    /\ IdleFr
    /\ IdleIc

\* the number of encrypt calls made on the current machine
calls == IF pass = 1 THEN Len(encrypted) ELSE Len(decrypted)

\* e.encrypt(ch) on the first machine
Encrypt(ch) ==
    /\ pass = 1
    /\ Len(message) < MaxMsgLen
    /\ LET r == encrypt(enigma, ch)
       IN  /\ r.ok
           /\ enigma' = r.enigma
           /\ encrypted' = Append(encrypted, r.out)
    /\ message' = Append(message, ch)
    /\ UNCHANGED <<ekey, ereflector, pass, decrypted, notEnigma>>

\* Enigma::new(key, reflector) again: the rotors are back at the key's start
Rebuild ==
    /\ pass = 1
    /\ message # <<>>
    /\ pass' = 2
    /\ enigma' = EnigmaNew(ekey, ereflector)
    /\ UNCHANGED <<ekey, ereflector, message, encrypted, decrypted, notEnigma>>

\* e.encrypt(ch) on the second machine, ch the next character of the output
EncryptOutput ==
    /\ pass = 2
    /\ Len(decrypted) < Len(encrypted)
    /\ LET r == encrypt(enigma, encrypted[Len(decrypted) + 1])
       IN  /\ r.ok
           /\ enigma' = r.enigma
           /\ decrypted' = Append(decrypted, r.out)
    /\ UNCHANGED <<ekey, ereflector, message, encrypted, pass, notEnigma>>

NextEnigma ==
    \/ \E ch \in MsgChars : Encrypt(ch)
    \/ Rebuild
    \/ EncryptOutput

SpecEnigma == InitEnigma /\ [][NextEnigma]_vars

Positions(e) ==
    <<e.left_rotor.rotor_position, e.middle_rotor.rotor_position,
      e.right_rotor.rotor_position>>

\* the stepping rule, stated on positions: what one keystroke makes of them
Stepped(e) ==
    LET l == e.left_rotor.rotor_position
        m == e.middle_rotor.rotor_position
        r == e.right_rotor.rotor_position
    IN  IF is_at_notch(e.middle_rotor.id, m)
        THEN <<(l + 1) % 26, (m + 1) % 26, (r + 1) % 26>>
        ELSE IF is_at_notch(e.right_rotor.id, r)
        THEN <<l, (m + 1) % 26, (r + 1) % 26>>
        ELSE <<l, m, (r + 1) % 26>>

MachineInvolution ==
    pass = 2 => decrypted = SubSeq(message, 1, Len(decrypted))

\* a whole message through both machines, with plugs, ring settings and a
\* middle-rotor step on the way
MachineInvolutionWitness ==
    /\ pass = 2
    /\ Len(message) >= 2
    /\ decrypted = message
    /\ encrypted # message
    /\ ekey.plugboard.wiring # identity
    /\ ekey.middle_rotor.ring_setting # 0
    /\ enigma.middle_rotor.rotor_position # ekey.middle_rotor.rotor_position


----------------------------------------------------------------------------
(* Stage C: find_plugs and the find_plug it calls, one tested pair at a    *)
(* time                                                                     *)

MaxPlugsArg == 14

CribMaxPlugs == 3

\* rotors I, II, III at AAA, ring settings 0
KeyAAA(conns) ==
    EnigmaKeyNew(RotorNew(RotorI, 0, 0), RotorNew(RotorII, 0, 0),
                 RotorNew(RotorIII, 0, 0), PlugboardNew(conns))

\* "HARCJJQQITYNUGLEVYR", which the key without plugs decrypts to
\* "IDXBPHWOJAZMVZVNKCS"
CribCipher == <<72, 65, 82, 67, 74, 74, 81, 81, 73, 84, 89, 78, 85, 71, 76, 69, 86, 89, 82>>

CribPlain == <<73, 68, 88, 66, 80, 72, 87, 79, 74, 65, 90, 77, 86, 90, 86, 78, 75, 67, 83>>

\* max_plugs: none, few, as many as there are disjoint pairs, and more
MaxPlugsSample == {0, 1, 2, MaxPlugsArg - 1, MaxPlugsArg}

\* the calls of find_plugs looked at: a crib that the key decrypts without
\* any plug; a two-letter text under a quadgram table (every score 0.0); a
\* one-letter text under the index of coincidence (every score NaN); a
\* three-letter text under the index of coincidence
FindPlugsCalls ==
    {[cipher |-> CribCipher, key |-> KeyAAA(<<>>), f |-> KnownPlainTextFitness(CribPlain),
      max_plugs |-> m] : m \in 0..CribMaxPlugs}
    \cup
    {[cipher |-> c.cipher, key |-> KeyAAA(<<>>), f |-> c.f, max_plugs |-> m] :
        c \in {[cipher |-> <<81, 90>>, f |-> NgramFitness(4)],
               [cipher |-> <<65>>, f |-> IoCFitness],
               [cipher |-> <<88, 89, 88>>, f |-> IoCFitness]},
        m \in MaxPlugsSample}

InitFp ==
    /\ \E call \in FindPlugsCalls :
        /\ fp_cipher = call.cipher
        /\ fp_key = call.key
        /\ fp_f = call.f
        /\ fp_max_plugs = call.max_plugs
    /\ fp_plugs = <<>>
    /\ fp_max_fitness = MinFitness
    /\ fp_best_key = fp_key
    /\ fp_iter = 0
    /\ fp_pc = "loop"
    /\ fp_result = Unset
    /\ fpl_unplugged = unplugged(PlugboardNew(<<>>))
    /\ fpl_plugs = <<>>
    /\ fpl_optimal_plug = <<65, 65>>
    /\ fpl_max_fitness = MinFitness
    /\ fpl_i = 26
    /\ fpl_j = 26
    /\ IdleRotor
    /\ IdleRefl
    /\ IdlePlug
    /\ IdleEnigma
    /\ IdleFa
    /\ IdleFr
    /\ IdleIc

\* the filter of both loops of find_plug: the first unplugged index from j
\* on, 26 if there is none
RECURSIVE next_unplugged(_, _)
next_unplugged(unp, j) ==
    IF j > 25 THEN 26
    ELSE IF unp[j] THEN j
    ELSE next_unplugged(unp, j + 1)

\* the first pair the loops of find_plug reach with the outer index at i or
\* above; <<26, 26>> when they have run out
RECURSIVE first_pair(_, _)
first_pair(unp, i) ==
    LET a == next_unplugged(unp, i)
        b == next_unplugged(unp, a + 1)
    IN  IF a > 25 THEN <<26, 26>>
        ELSE IF b <= 25 THEN <<a, b>>
        ELSE first_pair(unp, a + 1)

\* the pair the loops reach after (i, j)
next_pair(unp, i, j) ==
    LET b == next_unplugged(unp, j + 1)
    IN  IF b <= 25 THEN <<i, b>> ELSE first_pair(unp, i + 1)

\* the top of the for loop of find_plugs, the call of find_plug and the
\* locals find_plug starts with
BeginIteration ==
    /\ fp_pc = "loop"
    /\ fp_iter < fp_max_plugs
    /\ LET pb == PlugboardNew(fp_plugs)
       IN  IF ~pb.ok
           THEN /\ fp_pc' = "panic"
                /\ UNCHANGED <<fp_key, fplVars>>
           ELSE LET first == first_pair(unplugged(pb), 0)
                IN  /\ fp_pc' = "find_plug"
                    /\ fp_key' = set_plugboard(fp_key, pb)
                    /\ fpl_unplugged' = unplugged(pb)
                    /\ fpl_plugs' = generate_connections(pb)
                    /\ fpl_optimal_plug' = <<65, 65>>
                    /\ fpl_max_fitness' = MinFitness
                    /\ fpl_i' = first[1]
                    /\ fpl_j' = first[2]
    /\ UNCHANGED <<fp_cipher, fp_f, fp_max_plugs, fp_plugs, fp_max_fitness,
                   fp_best_key, fp_iter, fp_result, notFp>>

\* the end of the body of the inner loop: trial is the score of the key with
\* the plug, next the pair the loops step to
KeepBestPlug(plug, trial, next) ==
    IF ~trial.ok
    THEN /\ fp_pc' = "panic"
         /\ UNCHANGED <<fpl_optimal_plug, fpl_max_fitness, fpl_i, fpl_j>>
    ELSE /\ fp_pc' = "find_plug"
         /\ IF f32_gt(trial.fitness, fpl_max_fitness)
            THEN /\ fpl_max_fitness' = trial.fitness
                 /\ fpl_optimal_plug' = plug
            ELSE UNCHANGED <<fpl_max_fitness, fpl_optimal_plug>>
         /\ fpl_i' = next[1]
         /\ fpl_j' = next[2]

\* the plug made of the indices i and j
plug_of(i, j) == <<U8(i + byte_A), U8(j + byte_A)>>

\* the body of the inner loop of find_plug for the pair (i, j), and the step
\* of the loops to the next pair
Trial ==
    /\ fp_pc = "find_plug"
    /\ fpl_i <= 25
    /\ KeepBestPlug(plug_of(fpl_i, fpl_j),
                    key_score(set_plugboard(fp_key,
                                  PlugboardNew(Append(fpl_plugs, plug_of(fpl_i, fpl_j)))),
                              fp_cipher, fp_f),
                    next_pair(fpl_unplugged, fpl_i, fpl_j))
    /\ UNCHANGED <<fp_cipher, fp_f, fp_max_plugs, fp_key, fp_plugs, fp_max_fitness,
                   fp_best_key, fp_iter, fp_result, fpl_unplugged, fpl_plugs, notFp>>

\* find_plug returns (max_fitness, optimal_plug); the rest of the body of
\* the for loop of find_plugs
EndIteration ==
    /\ fp_pc = "find_plug"
    /\ fpl_i > 25
    /\ LET plugs1 == Append(fp_plugs, fpl_optimal_plug)
           pb1 == PlugboardNew(plugs1)
       IN  /\ fp_plugs' = plugs1
           /\ IF f32_lt(fpl_max_fitness, fp_max_fitness)
              THEN /\ fp_pc' = "break"
                   /\ UNCHANGED <<fp_max_fitness, fp_best_key, fp_iter>>
              ELSE IF ~pb1.ok
              THEN /\ fp_pc' = "panic"
                   /\ fp_max_fitness' = fpl_max_fitness
                   /\ UNCHANGED <<fp_best_key, fp_iter>>
              ELSE /\ fp_pc' = "loop"
                   /\ fp_max_fitness' = fpl_max_fitness
                   /\ fp_best_key' = set_plugboard(fp_best_key, pb1)
                   /\ fp_iter' = fp_iter + 1
    /\ UNCHANGED <<fp_cipher, fp_f, fp_max_plugs, fp_key, fp_result, fplVars, notFp>>

\* the code after the loop: the best key and its score
Return ==
    /\ \/ fp_pc = "break"
       \/ fp_pc = "loop" /\ fp_iter = fp_max_plugs
    /\ \E final \in {decrypt_score(fp_best_key, fp_cipher, fp_f)} :
           IF final.ok
           THEN /\ fp_result' = [ok |-> TRUE, key |-> fp_best_key, score |-> final.fitness]
                /\ fp_pc' = "done"
           ELSE /\ fp_result' = fp_result
                /\ fp_pc' = "panic"
    /\ UNCHANGED <<fp_cipher, fp_f, fp_max_plugs, fp_key, fp_plugs, fp_max_fitness,
                   fp_best_key, fp_iter, fplVars, notFp>>

NextFp ==
    \/ BeginIteration
    \/ Trial
    \/ EndIteration
    \/ Return

SpecFp == InitFp /\ [][NextFp]_vars

\* the score of the ciphertext decrypted with the rotors of the key and the
\* plugs given
ScoreWithPlugs(plugs) ==
    decrypt_score(set_plugboard(fp_key, PlugboardNew(plugs)), fp_cipher, fp_f).fitness

Front(s) == SubSeq(s, 1, Len(s) - 1)

\* C8: a pair is committed only if the score find_plug found for it is not
\* strictly worse than the score of the ciphertext decrypted with the pairs
\* committed before it (none, in the first iteration); the loop stops on a
\* strictly worse score, and the returned plugboard is then made of the pairs
\* committed before
CommitRule ==
    /\ fp_pc = "loop" /\ fp_iter >= 1 =>
        /\ ~f32_lt(fpl_max_fitness, ScoreWithPlugs(Front(fp_plugs)))
        /\ fp_best_key.plugboard = PlugboardNew(fp_plugs)
    /\ fp_pc = "break" =>
        /\ f32_lt(fpl_max_fitness, ScoreWithPlugs(Front(fp_plugs)))
        /\ fp_best_key.plugboard = PlugboardNew(Front(fp_plugs))
    /\ fp_pc = "done" /\ Len(fp_plugs) > fp_iter =>
        fp_result.key.plugboard = PlugboardNew(Front(fp_plugs))

PairCount(pb) == Cardinality({x \in 0..25 : pb.wiring[x] # x}) \div 2

UnpluggedCount(pb) == Cardinality({x \in 0..25 : pb.wiring[x] = x})

\* C9: find_plugs returns (it does not panic) after at most max_plugs
\* iterations; every committed pair takes two letters from the unplugged
\* ones; the returned plugboard is an involution of at most
\* min(max_plugs, 13) pairs
PlugsBounded ==
    /\ fp_pc # "panic"
    /\ fp_iter <= fp_max_plugs
    /\ UnpluggedCount(fp_best_key.plugboard) = 26 - 2 * fp_iter
    /\ fp_pc = "done" =>
        /\ fp_result.ok
        /\ PairCount(fp_result.key.plugboard) <= Min(fp_max_plugs, 13)
        /\ \A x \in 0..25 :
            fp_result.key.plugboard.wiring[fp_result.key.plugboard.wiring[x]] = x

----------------------------------------------------------------------------
(* Stage A: find_rotor_configurations.  The closure runs once for every    *)
(* rotor triple, on any worker and in any order among the triples in       *)
(* flight; the results are collected in the order of the triples.          *)

\* each rotor is swept over the positions 0..SweepLen-1
SweepLen == 2

\* at most this many triples are in flight at a time
PoolSize == 2

MaxRequiredKeys == 7

RANGE == 0..(SweepLen - 1)

available_rotors(rotors) ==
    CASE rotors = "Three" -> <<RotorI, RotorII, RotorIII>>
      [] rotors = "Five" -> <<RotorI, RotorII, RotorIII, RotorIV, RotorV>>
      [] rotors = "Eight" -> <<RotorI, RotorII, RotorIII, RotorIV, RotorV, RotorVI,
                               RotorVII, RotorVIII>>

\* iproduct!(available, available, available), the triples of distinct
\* rotors kept
rotor_triples(available) ==
    LET n == Len(available)
        product == [x \in 1..(n * n * n) |->
                       <<available[((x - 1) \div (n * n)) + 1],
                         available[(((x - 1) \div n) % n) + 1],
                         available[((x - 1) % n) + 1]>>]
    IN  SelectSeq(product, LAMBDA t : t[1] # t[2] /\ t[1] # t[3] /\ t[2] # t[3])

\* a slip: a position that only equals the best so far replaces it
sweep_improves_or_equals(fitness, max_fitness) ==
    ~fitness.nan /\ ~max_fitness.nan
        /\ fitness.num * max_fitness.den >= max_fitness.num * fitness.den

\* fitness > max_fitness
sweep_improves(fitness, max_fitness) == f32_gt(fitness, max_fitness)

\* the key of the n-th element of iproduct!(RANGE, RANGE, RANGE)
sweep_key(triple, pb, n) ==
    EnigmaKeyNew(RotorNew(triple[1], n \div (SweepLen * SweepLen), 0),
                 RotorNew(triple[2], (n \div SweepLen) % SweepLen, 0),
                 RotorNew(triple[3], n % SweepLen, 0),
                 pb)

\* the end of the closure of for_each: best is (max_fitness, best_key), with
\* ok = FALSE after a panic; trial is the score of the key
keep_best(best, key, trial) ==
    IF ~trial.ok
    THEN [best EXCEPT !.ok = FALSE]
    ELSE IF sweep_improves(trial.fitness, best.max_fitness)
    THEN [best EXCEPT !.max_fitness = trial.fitness,
                      !.best_key = [some |-> TRUE, key |-> key]]
    ELSE best

\* the closure of for_each
sweep_position(key, cipher, f, best) == keep_best(best, key, key_score(key, cipher, f))

\* the for_each over iproduct!(RANGE, RANGE, RANGE) from its n-th element on
RECURSIVE sweep(_, _, _, _, _, _)
sweep(triple, pb, cipher, f, n, best) ==
    IF n >= SweepLen * SweepLen * SweepLen \/ ~best.ok
    THEN best
    ELSE sweep(triple, pb, cipher, f, n + 1,
               sweep_position(sweep_key(triple, pb, n), cipher, f, best))

\* max_fitness and best_key before the sweep
no_best == [ok |-> TRUE, max_fitness |-> MinFitness, best_key |-> [some |-> FALSE]]

\* the locals of the closure of filter_map before the sweep: n elements of
\* the product done, the running best, the buffer
new_task == [n |-> 0, best |-> no_best, buf |-> <<>>]

\* and after the closure has returned: they are no more
dropped == [n |-> SweepLen * SweepLen * SweepLen, best |-> no_best, buf |-> <<>>]

\* buf after buf.clear() and buf.extend(..), d being the decryption
scratch(d, buf) == IF d.ok THEN d.text ELSE buf

\* a slip: there is one running best for all tasks, the one of the first
\* task that has not returned
running_best_shared(workers, results, t) ==
    workers[CHOOSE u \in 1..t : ~results[u].done /\ \A v \in 1..(u - 1) : results[v].done].best

\* the running best a task goes on from: its own
running_best(workers, results, t) == workers[t].best

\* the locals w of a task after the for_each, gone through from the running
\* best given
task_step(triple, pb, cipher, f, w, best) ==
    [n |-> SweepLen * SweepLen * SweepLen,
     best |-> sweep(triple, pb, cipher, f, w.n, best),
     buf |-> scratch(decrypt(sweep_key(triple, pb, SweepLen * SweepLen * SweepLen - 1),
                             cipher),
                     w.buf)]

\* what the closure has returned for a triple: nothing yet, None, Some
Pending == [done |-> FALSE, some |-> FALSE]

None == [done |-> TRUE, some |-> FALSE]

Some(key, fitness) == [done |-> TRUE, some |-> TRUE, key |-> key, score |-> fitness]

\* best_key.map(..): what the closure returns with the running best given
close_task(best) ==
    IF best.best_key.some THEN Some(best.best_key.key, best.max_fitness) ELSE None

\* the one of several elements with equal scores that the sort puts first
first_of_ties(tops, ties) ==
    IF ties = "first"
    THEN CHOOSE x \in tops : \A y \in tops : x <= y
    ELSE CHOOSE x \in tops : \A y \in tops : x >= y

\* the elements of rest with the highest score
top_scores(v, rest) == {x \in rest : \A y \in rest : ~f32_gt(v[y].score, v[x].score)}

\* the indices of the first k entries of v in descending order of score:
\* what sort_unstable_by and truncate(k) leave.  The sort is a function of
\* the vector it is given; which of several equal elements comes first is
\* the library's choice (ties)
RECURSIVE sorted_prefix(_, _, _, _)

\* x is the entry that comes next
sorted_from(v, rest, k, ties, x) == <<x>> \o sorted_prefix(v, rest \ {x}, k - 1, ties)

sorted_prefix(v, rest, k, ties) ==
    IF k = 0 \/ rest = {}
    THEN <<>>
    ELSE sorted_from(v, rest, k, ties, first_of_ties(top_scores(v, rest), ties))

\* the entries of key_set at the indices given
scored_keys(key_set, order) ==
    [x \in 1..Len(order) |-> [key |-> key_set[order[x]].key,
                              score |-> key_set[order[x]].score]]

\* the keys collected, in the order of the triples
collect(results) == SelectSeq(results, LAMBDA r : r.some)

\* key_set after sort_unstable_by and truncate
sort_truncate(key_set, k, ties) ==
    scored_keys(key_set, sorted_prefix(key_set, 1..Len(key_set), k, ties))

\* the calls with three rotors: the crib "HM" for the plaintext "QL" with the
\* plug QZ; a one-letter and a three-letter text under the index of
\* coincidence
ThreeRotorCalls ==
    {[cipher |-> <<72, 77>>, f |-> KnownPlainTextFitness(<<81, 76>>),
      connections |-> <<<<81, 90>>>>],
     [cipher |-> <<65>>, f |-> IoCFitness, connections |-> <<>>],
     [cipher |-> <<88, 89, 88>>, f |-> IoCFitness, connections |-> <<>>]}

\* required_keys: none, one, two, as many as there are triples of three
\* rotors or one less, and more
RequiredKeysSample == {0, 1, 2, MaxRequiredKeys - 1, MaxRequiredKeys}

\* with five and with eight rotors: the crib "H" for the plaintext "Q", the
\* best key asked for
FindRotorCalls ==
    {[rotors |-> "Three", cipher |-> c.cipher, f |-> c.f,
      connections |-> c.connections, required_keys |-> k] :
        c \in ThreeRotorCalls, k \in RequiredKeysSample}
    \cup
    {[rotors |-> r, cipher |-> <<72>>, f |-> KnownPlainTextFitness(<<81>>),
      connections |-> <<>>, required_keys |-> 1] :
        r \in {"Five", "Eight"}}

InitFa ==
    /\ \E call \in FindRotorCalls :
        /\ fa_cipher = call.cipher
        /\ fa_rotors = call.rotors
        /\ fa_connections = call.connections
        /\ fa_required_keys = call.required_keys
        /\ fa_f = call.f
    /\ fa_plugboard = Unset
    /\ fa_triples = <<>>
    /\ fa_results = <<>>
    /\ fa_key_set = <<>>
    /\ fa_pc = "start"
    /\ fa_workers = <<>>
    /\ fa_sort_ties = "first"
    /\ IdleRotor
    /\ IdleRefl
    /\ IdlePlug
    /\ IdleEnigma
    /\ IdleFp
    /\ IdleFr
    /\ IdleIc

\* the code before the parallel iterator: the plugboard and the triples
Start ==
    /\ fa_pc = "start"
    /\ LET pb == PlugboardNew(fa_connections)
           rotors == rotor_triples(available_rotors(fa_rotors))
       IN  IF ~pb.ok
           THEN /\ fa_pc' = "panic"
                /\ UNCHANGED <<fa_plugboard, fa_triples, fa_results, fa_workers>>
           ELSE /\ fa_pc' = "par"
                /\ fa_plugboard' = pb
                /\ fa_triples' = rotors
                /\ fa_results' = [t \in 1..Len(rotors) |-> Pending]
                /\ fa_workers' = [t \in 1..Len(rotors) |-> new_task]
    /\ UNCHANGED <<fa_cipher, fa_rotors, fa_connections, fa_required_keys, fa_f,
                   fa_key_set, fa_sort_ties, notFa>>

\* the triples whose closure has not returned
pending(results) == {t \in 1..Len(results) : ~results[t].done}

\* the first of them
first_pending(tasks) == CHOOSE t \in tasks : \A u \in tasks : t <= u

\* those of them that are less than PoolSize after the task first
window_from(tasks, first) == {t \in first..(first + PoolSize - 1) : t \in tasks}

\* those of them that are less than PoolSize after the first
window(tasks) == IF tasks = {} THEN {} ELSE window_from(tasks, first_pending(tasks))

\* the triples that can be in flight: the first PoolSize, in the order of
\* the triples, of those whose closure has not returned
in_flight(results) == window(pending(results))

\* the end of the closure of filter_map: best_key.map(..), best being what
\* the sweep came to
CloseTriple(t, best) ==
    IF ~best.ok
    THEN /\ fa_pc' = "panic"
         /\ UNCHANGED <<fa_results, fa_workers>>
    ELSE /\ fa_pc' = "par"
         /\ fa_results' = [fa_results EXCEPT ![t] = close_task(best)]
         /\ fa_workers' = [fa_workers EXCEPT ![t] = dropped]

\* the sweep of the task of the t-th triple has not come to its end
sweeping(w) == w.best.ok /\ w.n < SweepLen * SweepLen * SweepLen

\* the task of the t-th triple, on whatever worker it runs, goes through the
\* product
Sweep(t) ==
    /\ fa_pc = "par"
    /\ ~fa_results[t].done
    /\ sweeping(fa_workers[t])
    /\ fa_workers' =
           [fa_workers EXCEPT ![t] =
               task_step(fa_triples[t], fa_plugboard, fa_cipher, fa_f, fa_workers[t],
                         running_best(fa_workers, fa_results, t))]
    /\ UNCHANGED <<fa_cipher, fa_rotors, fa_connections, fa_required_keys, fa_f,
                   fa_plugboard, fa_triples, fa_results, fa_key_set, fa_pc,
                   fa_sort_ties, notFa>>

\* the closure of filter_map for the t-th triple returns
Worker(t) ==
    /\ fa_pc = "par"
    /\ ~fa_results[t].done
    /\ ~sweeping(fa_workers[t])
    /\ CloseTriple(t, fa_workers[t].best)
    /\ UNCHANGED <<fa_cipher, fa_rotors, fa_connections, fa_required_keys, fa_f,
                   fa_plugboard, fa_triples, fa_key_set, fa_sort_ties, notFa>>

\* collect, sort_unstable_by and truncate; partial_cmp(..).unwrap() panics
\* on a score that is NaN
SortTruncate ==
    /\ fa_pc = "par"
    /\ \A t \in 1..Len(fa_results) : fa_results[t].done
    /\ \E key_set \in {collect(fa_results)} :
           IF Len(key_set) >= 2 /\ \E x \in 1..Len(key_set) : key_set[x].score.nan
           THEN /\ fa_pc' = "panic"
                /\ UNCHANGED fa_key_set
                /\ UNCHANGED fa_sort_ties
           ELSE /\ fa_pc' = "done"
                /\ \E ties \in {"first", "last"} :
                    /\ fa_sort_ties' = ties
                    /\ fa_key_set' = sort_truncate(key_set, fa_required_keys, ties)
    /\ UNCHANGED <<fa_cipher, fa_rotors, fa_connections, fa_required_keys, fa_f,
                   fa_plugboard, fa_triples, fa_results, fa_workers, notFa>>

NextFa ==
    \/ Start
    \/ \E t \in in_flight(fa_results) : Sweep(t)
    \/ \E t \in in_flight(fa_results) : Worker(t)
    \/ SortTruncate

SpecFa == InitFa /\ [][NextFa]_vars

\* the number of rotors of a rotor set
RotorSetSize(rotors) ==
    CASE rotors = "Three" -> 3
      [] rotors = "Five" -> 5
      [] rotors = "Eight" -> 8

\* the first RotorSetSize rotor types
RotorSet(rotors) == RotorI..(RotorI + RotorSetSize(rotors) - 1)

Positions3 == RANGE \X RANGE \X RANGE

\* p comes before q in the order (left, middle, right)
LexBefore(p, q) ==
    \/ p[1] < q[1]
    \/ p[1] = q[1] /\ p[2] < q[2]
    \/ p[1] = q[1] /\ p[2] = q[2] /\ p[3] < q[3]

\* the key of a triple at the start position p: ring settings 0 and the
\* plugboard of the caller
PositionKey(triple, p) ==
    EnigmaKeyNew(RotorNew(triple[1], p[1], 0), RotorNew(triple[2], p[2], 0),
                 RotorNew(triple[3], p[3], 0), PlugboardNew(fa_connections))

\* the score of every start position of a triple
PositionScores(triple) ==
    [p \in Positions3 |-> decrypt_score(PositionKey(triple, p), fa_cipher, fa_f).fitness]

f32_same(a, b) == ~a.nan /\ ~b.nan /\ a.num * b.den = b.num * a.den

\* r is what the claim says of a triple: no key if no position scores above
\* -1e30, else the first position, in the order (left, middle, right), of
\* those with the maximum score, and that score
TripleWinner(triple, r) ==
    \E scores \in {PositionScores(triple)} :
        IF \A p \in Positions3 : ~f32_gt(scores[p], MinFitness)
        THEN r.done /\ ~r.some
        ELSE /\ r.done
             /\ r.some
             /\ \E p \in Positions3 :
                 /\ r.key = PositionKey(triple, p)
                 /\ f32_same(r.score, scores[p])
                 /\ \A q \in Positions3 : ~f32_gt(scores[q], scores[p])
                 /\ \A q \in Positions3 : LexBefore(q, p) => ~f32_same(scores[q], scores[p])

\* the rotor types of a key, left to right
KeyTriple(key) == <<key.left_rotor.id, key.middle_rotor.id, key.right_rotor.id>>

\* the triples are the n(n-1)(n-2) ordered triples of distinct rotor types of
\* the set, each once
AllTriples ==
    LET n == RotorSetSize(fa_rotors)
    IN  /\ Len(fa_triples) = n * (n - 1) * (n - 2)
        /\ \A t \in 1..Len(fa_triples) :
            /\ \A x \in 1..3 : fa_triples[t][x] \in RotorSet(fa_rotors)
            /\ Cardinality({fa_triples[t][x] : x \in 1..3}) = 3
        /\ Cardinality({fa_triples[t] : t \in 1..Len(fa_triples)}) = Len(fa_triples)

\* the triples the closure returned a key for
Winners == {t \in 1..Len(fa_results) : fa_results[t].some}

\* the key set is made of winners of different triples, in non-increasing
\* order of score, and no winner left out scores above one in it
RankedWinners ==
    /\ \A x \in 1..Len(fa_key_set) :
        \E t \in Winners :
            /\ fa_key_set[x].key = fa_results[t].key
            /\ fa_key_set[x].score = fa_results[t].score
            /\ KeyTriple(fa_key_set[x].key) = fa_triples[t]
    /\ \A x, y \in 1..Len(fa_key_set) :
        x # y => KeyTriple(fa_key_set[x].key) # KeyTriple(fa_key_set[y].key)
    /\ \A x, y \in 1..Len(fa_key_set) :
        x < y => ~f32_lt(fa_key_set[x].score, fa_key_set[y].score)
    /\ \A t \in Winners :
        (\A x \in 1..Len(fa_key_set) : KeyTriple(fa_key_set[x].key) # fa_triples[t])
            => \A x \in 1..Len(fa_key_set) :
                   ~f32_gt(fa_results[t].score, fa_key_set[x].score)

\* the closure has just returned for the t-th triple
Returned(t) == fa_pc = "par" /\ ~fa_results[t].done /\ fa_results'[t].done

\* C10, with the count put right: for every triple the closure returns the
\* first best position of the sweep with ring settings 0 and the caller's
\* plugboard, or no key when no position scores above -1e30; the result is
\* made of min(K, number of triples with a key) of these, of different
\* triples, in non-increasing order of score, the highest-scoring ones
RotorConfigurations ==
    /\ [][\A t \in 1..Len(fa_results) :
            Returned(t) => TripleWinner(fa_triples[t], fa_results'[t])]_vars
    /\ [](fa_pc = "done" =>
            /\ AllTriples
            /\ Len(fa_key_set) = Min(fa_required_keys, Cardinality(Winners))
            /\ RankedWinners)

\* three rotors, the crib and a plug: two keys asked for, II-I-III left out
\* although it scores as much as the second key, which is not at its
\* triple's first position
RotorConfigurationsWitness ==
    /\ fa_pc = "done"
    /\ fa_rotors = "Three"
    /\ fa_connections # <<>>
    /\ fa_required_keys = 2
    /\ Len(fa_key_set) = 2
    /\ Cardinality(Winners) = 6
    /\ f32_gt(fa_key_set[1].score, fa_key_set[2].score)
    /\ fa_key_set[2].key.left_rotor.rotor_position = 1
    /\ fa_key_set[2].key.plugboard.wiring[16] = 25
    /\ \E t \in Winners :
        /\ KeyTriple(fa_key_set[2].key) # fa_triples[t]
        /\ f32_same(fa_results[t].score, fa_key_set[2].score)

\* C10 as it stands: min(K, n(n-1)(n-2)) keys are returned
RotorConfigurationsCount ==
    fa_pc = "done" =>
        LET n == RotorSetSize(fa_rotors)
        IN  /\ AllTriples
            /\ Len(fa_key_set) = Min(fa_required_keys, n * (n - 1) * (n - 2))
            /\ RankedWinners

\* what the closure returns for the t-th triple when nothing else runs
SequentialResult(t) ==
    close_task(sweep(fa_triples[t], PlugboardNew(fa_connections), fa_cipher, fa_f,
                     0, no_best))

\* what it returns for each triple when the triples are gone through one
\* after the other
SequentialResults == [t \in 1..Len(fa_triples) |-> SequentialResult(t)]

\* and the list returned then
SequentialKeySet ==
    sort_truncate(collect(SequentialResults), fa_required_keys, fa_sort_ties)

\* a step of the task of the t-th triple that is not its return: it goes on
\* from the locals of the task and changes nothing else
TaskStepped(t) ==
    /\ ~fa_results'[t].done
    /\ fa_workers'[t] # fa_workers[t]
    /\ fa_workers' = [fa_workers EXCEPT
                         ![t] = task_step(fa_triples[t], fa_plugboard, fa_cipher, fa_f,
                                          fa_workers[t], fa_workers[t].best)]
    /\ fa_results' = fa_results

\* the return of the task of the t-th triple: best_key.map(..) of the
\* task's own running best, and the locals are dropped
TaskReturned(t) ==
    /\ fa_results'[t].done
    /\ fa_results' = [fa_results EXCEPT ![t] = close_task(fa_workers[t].best)]
    /\ fa_workers' = [fa_workers EXCEPT ![t] = dropped]

\* C11: whatever the order in which the tasks of the triples run and return,
\* the list returned (keys and scores, in order) is the one a run of the
\* triples one after the other returns, equal scores included, and so is
\* what each closure has returned; a step of a task goes on from the task's
\* own locals only and changes nothing but them
StageADeterministic ==
    /\ [][fa_pc = "par" /\ fa_pc' = "par" =>
            \E t \in in_flight(fa_results) : TaskStepped(t) \/ TaskReturned(t)]_vars
    /\ [](fa_pc = "done" =>
            /\ fa_results = SequentialResults
            /\ fa_key_set = SequentialKeySet)

\* three rotors and a three-letter text under the index of coincidence: four
\* triples score the same, two keys are asked for and the sort puts the last
\* of equal elements first, so the sixth and the fourth triple are returned
\* and the first and the second, which score as much, are not
StageADeterministicWitness ==
    /\ fa_pc = "done"
    /\ fa_rotors = "Three"
    /\ fa_f = IoCFitness
    /\ fa_required_keys = 2
    /\ fa_sort_ties = "last"
    /\ Cardinality({t \in Winners : f32_same(fa_results[t].score, fa_results[1].score)}) = 4
    /\ Len(fa_key_set) = 2
    /\ KeyTriple(fa_key_set[1].key) = fa_triples[6]
    /\ KeyTriple(fa_key_set[2].key) = fa_triples[4]
    /\ f32_same(fa_key_set[2].score, fa_results[1].score)
    /\ fa_key_set = SequentialKeySet

----------------------------------------------------------------------------
(* Stage B: find_ring_settings and the find_ring_setting it calls, one     *)
(* trial at a time, on a key its caller has made                           *)

\* Rotor::set_rotor_position: the rotor, or ok = FALSE for the assertion's
\* panic
set_rotor_position(r, rotor_position) ==
    IF rotor_position \in 0..25
    THEN [r EXCEPT !.rotor_position = rotor_position]
    ELSE [ok |-> FALSE]

\* Rotor::set_ring_setting
set_ring_setting(r, ring_setting) ==
    IF ring_setting \in 0..25
    THEN [r EXCEPT !.ring_setting = ring_setting]
    ELSE [ok |-> FALSE]

\* the rotor that EnigmaKey::left_rotor_mut, middle_rotor_mut or
\* right_rotor_mut gives
rotor_idx(key, which) ==
    CASE which = "left" -> key.left_rotor
      [] which = "middle" -> key.middle_rotor
      [] which = "right" -> key.right_rotor

\* the key after that rotor has been written
rotor_written(key, which, r) ==
    CASE which = "left" -> [key EXCEPT !.left_rotor = r]
      [] which = "middle" -> [key EXCEPT !.middle_rotor = r]
      [] which = "right" -> [key EXCEPT !.right_rotor = r]

\* one of the setters called on a rotor
rotor_set(r, field, value) ==
    IF field = "rotor_position"
    THEN set_rotor_position(r, value)
    ELSE set_ring_setting(r, value)

\* (pos + delta) % 26, in u8
compensated(pos, delta) == U8(pos + delta) % 26

\* set_ring_setting on what set_rotor_position left (nothing to do after a
\* panic)
ring_set_after(r, ring_setting) ==
    IF r.ok THEN set_ring_setting(r, ring_setting) ELSE r

\* cur_rotor of the i-th round of find_ring_setting
trial_rotor(r, start_pos, i) ==
    ring_set_after(set_rotor_position(r, compensated(start_pos, i)), i)

\* the position of a rotor read back and moved by delta (nothing to do
\* after a panic)
moved_after(r, delta) ==
    IF r.ok THEN set_rotor_position(r, compensated(r.rotor_position, delta)) ELSE r

\* the rotor after find_ring_settings has applied optimal_index: the ring
\* setting first, then the position read back and moved
applied_rotor(r, optimal_index) ==
    moved_after(set_ring_setting(r, optimal_index), optimal_index)

\* "MPJ", which rotors I, II, III at positions 25, 3, 21 with ring settings
\* 0, 9, 13 and the plug QZ decrypt to "QAL"
RingCribCipher == <<77, 80, 74>>

RingCribPlain == <<81, 65, 76>>

\* the numbers the caller makes the rotors of: in range and out of range
PositionArgs == {<<25, 20, 8>>, <<26, 0, 0>>, <<0, 0, 255>>}

RingArgs == {<<0, 0, 0>>, <<5, 7, 3>>, <<0, 26, 0>>}

\* and the numbers it calls a setter with
SetterArgs == {0, 25, 26, 255}

NoAdjust == [rotor |-> "none", field |-> "none", value |-> 0]

\* the crib; a one-letter text under the index of coincidence (every score
\* NaN); the crib's ciphertext under a bigram table of no lines (every score
\* the same)
FindRingCalls ==
    {[cipher |-> RingCribCipher, f |-> KnownPlainTextFitness(RingCribPlain)],
     [cipher |-> <<65>>, f |-> IoCFitness],
     [cipher |-> RingCribCipher, f |-> NgramFitness(2)]}

InitFr ==
    /\ fr_args \in {[ids |-> <<RotorI, RotorII, RotorIII>>, positions |-> p, rings |-> g] :
                       p \in PositionArgs, g \in RingArgs}
    /\ fr_adjust \in {NoAdjust} \cup
                     {[rotor |-> w, field |-> fld, value |-> v] :
                         w \in {"left", "middle", "right"},
                         fld \in {"rotor_position", "ring_setting"},
                         v \in SetterArgs}
    /\ \E call \in FindRingCalls :
        /\ fr_cipher = call.cipher
        /\ fr_f = call.f
    /\ fr_input = Unset
    /\ fr_key = Unset
    /\ fr_rotor = "right"
    /\ fr_pc = "new"
    /\ fr_result = Unset
    /\ frs_key = Unset
    /\ frs_start_pos = 0
    /\ frs_optimal_ring_setting = 0
    /\ frs_max_fitness = MinFitness
    /\ frs_i = 0
    /\ frs_enigma = Unset
    /\ IdleRotor
    /\ IdleRefl
    /\ IdlePlug
    /\ IdleEnigma
    /\ IdleFp
    /\ IdleFa
    /\ IdleIc

\* the key made of the numbers given, with the plug QZ (ok = FALSE for a
\* panic of Rotor::new)
key_of_args(args) ==
    EnigmaKeyNew(RotorNew(args.ids[1], args.positions[1], args.rings[1]),
                 RotorNew(args.ids[2], args.positions[2], args.rings[2]),
                 RotorNew(args.ids[3], args.positions[3], args.rings[3]),
                 PlugboardNew(<<<<81, 90>>>>))

key_made(key) == key.left_rotor.ok /\ key.middle_rotor.ok /\ key.right_rotor.ok

\* the caller: Rotor::new three times and EnigmaKey::new
NewKey ==
    /\ fr_pc = "new"
    /\ IF key_made(key_of_args(fr_args))
       THEN /\ fr_input' = key_of_args(fr_args)
            /\ fr_pc' = "key"
       ELSE /\ fr_input' = fr_input
            /\ fr_pc' = "panic"
    /\ UNCHANGED <<fr_args, fr_adjust, fr_cipher, fr_f, fr_key, fr_rotor, fr_result,
                   frsVars, notFr>>

\* the caller: one setter called on one rotor of the key, or none
Adjust ==
    /\ fr_pc = "key"
    /\ IF fr_adjust.rotor = "none"
       THEN /\ fr_input' = fr_input
            /\ fr_pc' = "ready"
       ELSE \E r \in {rotor_set(rotor_idx(fr_input, fr_adjust.rotor), fr_adjust.field,
                                fr_adjust.value)} :
                IF r.ok
                THEN /\ fr_input' = rotor_written(fr_input, fr_adjust.rotor, r)
                     /\ fr_pc' = "ready"
                ELSE /\ fr_input' = fr_input
                     /\ fr_pc' = "panic"
    /\ UNCHANGED <<fr_args, fr_adjust, fr_cipher, fr_f, fr_key, fr_rotor, fr_result,
                   frsVars, notFr>>

\* find_ring_settings is called: key is a copy of the caller's
Call ==
    /\ fr_pc = "ready"
    /\ fr_key' = fr_input
    /\ fr_rotor' = "right"
    /\ fr_pc' = "rings"
    /\ UNCHANGED <<fr_args, fr_adjust, fr_input, fr_cipher, fr_f, fr_result, frsVars,
                   notFr>>

\* find_ring_setting is called for the rotor the loop is at: its copy of the
\* key and its locals
BeginSweep ==
    /\ fr_pc = "rings"
    /\ frs_key' = fr_key
    /\ frs_start_pos' = rotor_idx(fr_key, fr_rotor).rotor_position
    /\ frs_optimal_ring_setting' = 0
    /\ frs_max_fitness' = MinFitness
    /\ frs_i' = 0
    /\ fr_pc' = "sweep"
    /\ UNCHANGED <<fr_args, fr_adjust, fr_input, fr_cipher, fr_f, fr_key, fr_rotor,
                   fr_result, frs_enigma, notFr>>

\* the end of a round of find_ring_setting: d is the decryption
KeepBestRing(d) ==
    IF ~d.ok
    THEN /\ fr_pc' = "panic"
         /\ UNCHANGED <<frs_enigma, frs_max_fitness, frs_optimal_ring_setting, frs_i>>
    ELSE /\ fr_pc' = "sweep"
         /\ frs_enigma' = d.enigma
         /\ IF f32_gt(score(fr_f, d.text), frs_max_fitness)
            THEN /\ frs_max_fitness' = score(fr_f, d.text)
                 /\ frs_optimal_ring_setting' = frs_i
            ELSE UNCHANGED <<frs_max_fitness, frs_optimal_ring_setting>>
         /\ frs_i' = frs_i + 1

\* the i-th round of the loop of find_ring_setting
RingTrial ==
    /\ fr_pc = "sweep"
    /\ frs_i < 26
    /\ \E cur_rotor \in {trial_rotor(rotor_idx(frs_key, fr_rotor), frs_start_pos, frs_i)} :
           IF ~cur_rotor.ok
           THEN /\ fr_pc' = "panic"
                /\ UNCHANGED frsVars
           ELSE /\ frs_key' = rotor_written(frs_key, fr_rotor, cur_rotor)
                /\ KeepBestRing(decrypt(rotor_written(frs_key, fr_rotor, cur_rotor),
                                        fr_cipher))
                /\ UNCHANGED frs_start_pos
    /\ UNCHANGED <<fr_args, fr_adjust, fr_input, fr_cipher, fr_f, fr_key, fr_rotor,
                   fr_result, notFr>>

\* find_ring_setting returns optimal_ring_setting; find_ring_settings sets
\* the ring setting and moves the position of the rotor, and goes on to the
\* middle rotor or to the code after the loop
ApplyRingSetting ==
    /\ fr_pc = "sweep"
    /\ frs_i = 26
    /\ \E r \in {applied_rotor(rotor_idx(fr_key, fr_rotor), frs_optimal_ring_setting)} :
           IF ~r.ok
           THEN /\ fr_pc' = "panic"
                /\ UNCHANGED <<fr_key, fr_rotor>>
           ELSE /\ fr_key' = rotor_written(fr_key, fr_rotor, r)
                /\ IF fr_rotor = "right"
                   THEN /\ fr_rotor' = "middle"
                        /\ fr_pc' = "rings"
                   ELSE /\ fr_rotor' = fr_rotor
                        /\ fr_pc' = "score"
    /\ UNCHANGED <<fr_args, fr_adjust, fr_input, fr_cipher, fr_f, fr_result, frsVars,
                   notFr>>

\* the code after the loop: the key and its score
ReturnRings ==
    /\ fr_pc = "score"
    /\ \E final \in {decrypt_score(fr_key, fr_cipher, fr_f)} :
           IF final.ok
           THEN /\ fr_result' = [ok |-> TRUE, key |-> fr_key, score |-> final.fitness]
                /\ fr_pc' = "done"
           ELSE /\ fr_result' = fr_result
                /\ fr_pc' = "panic"
    /\ UNCHANGED <<fr_args, fr_adjust, fr_input, fr_cipher, fr_f, fr_key, fr_rotor,
                   frsVars, notFr>>

NextFr ==
    \/ NewKey
    \/ Adjust
    \/ Call
    \/ BeginSweep
    \/ RingTrial
    \/ ApplyRingSetting
    \/ ReturnRings

SpecFr == InitFr /\ [][NextFr]_vars

\* (position - ring setting) mod 26 of a rotor
Offset(r) == (r.rotor_position - r.ring_setting) % 26

\* the right and the middle rotor of the key have the offsets of the input
\* key's
SameOffsets(key) ==
    /\ Offset(key.right_rotor) = Offset(fr_input.right_rotor)
    /\ Offset(key.middle_rotor) = Offset(fr_input.middle_rotor)

\* the left rotor, the rotor types and the plugboard of the key are the
\* input key's
SameFrame(key) ==
    /\ key.left_rotor = fr_input.left_rotor
    /\ key.middle_rotor.id = fr_input.middle_rotor.id
    /\ key.right_rotor.id = fr_input.right_rotor.id
    /\ key.plugboard = fr_input.plugboard

\* C12: in every trial and in the key returned, the right and the middle
\* rotor keep (position - ring setting) mod 26 of the input key, whatever its
\* ring settings; the left rotor, the rotor types and the plugboard stay; the
\* middle rotor is swept with the right rotor's chosen setting in place
RingCompensation ==
    /\ fr_pc \in {"rings", "sweep", "score"} => SameOffsets(fr_key) /\ SameFrame(fr_key)
    /\ fr_pc = "sweep" =>
        /\ SameOffsets(frs_key)
        /\ SameFrame(frs_key)
        /\ fr_rotor = "right" => frs_key.middle_rotor = fr_input.middle_rotor
        /\ fr_rotor = "middle" => frs_key.right_rotor = fr_key.right_rotor
    /\ fr_pc = "done" => SameOffsets(fr_result.key) /\ SameFrame(fr_result.key)

----------------------------------------------------------------------------
(* The three search stages run to their end                                *)

\* no letter is in two of the pairs, or twice in one
DisjointPairs(conns) ==
    \A a, b \in 1..Len(conns) :
        /\ conns[a][1] # conns[a][2]
        /\ a # b => {conns[a][1], conns[a][2]} \cap {conns[b][1], conns[b][2]} = {}

\* the scores that sort_unstable_by of Stage A compares
SortedScores ==
    {fa_results[t].score :
        t \in {u \in 1..Len(fa_results) : fa_results[u].done /\ fa_results[u].some}}

\* C13: no stage panics once it has been called, also when every score is
\* NaN and for every max_plugs: the sort of Stage A meets no NaN; Stage B and
\* Stage C return; every list of pairs that find_plugs and find_plug make a
\* plugboard of is a list of disjoint pairs
StagesComplete ==
    /\ fa_pc = "panic" => ~PlugboardNew(fa_connections).ok
    /\ \A x \in SortedScores : ~x.nan
    /\ fr_pc = "panic" => fr_key = Unset
    /\ fp_pc # "panic"
    /\ fp_pc = "loop" => DisjointPairs(fp_plugs)
    /\ fp_pc = "find_plug" /\ fpl_i <= 25 =>
        DisjointPairs(Append(fpl_plugs, plug_of(fpl_i, fpl_j)))

----------------------------------------------------------------------------
(* IoCFitness::score on texts of any length, in a build with and in a      *)
(* build without overflow checks.  A text is written as its runs: n times  *)
(* the character ch, one run after the other.                              *)

\* the lengths of the runs: none, short, the hundred letters of the test,
\* and the first lengths whose term does not fit 32 bits
RunLengths == {0, 1, 2, 100, 65536, 65537}

\* every letter of the alphabet n times
alphabet(n) == [k \in 1..26 |-> [ch |-> byte_A + k - 1, n |-> n]]

\* texts of uppercase letters, with and without letters that do not occur,
\* and one text of a lowercase letter
IocTexts ==
    {alphabet(base) \o <<[ch |-> 65, n |-> a], [ch |-> 66, n |-> b]>> :
        base \in {0, 1}, a \in RunLengths, b \in RunLengths}
    \cup {<<[ch |-> 97, n |-> 2]>>}

\* text.chars().count()
RECURSIVE chars_count(_, _)
chars_count(text, k) ==
    IF k > Len(text) THEN 0 ELSE text[k].n + chars_count(text, k + 1)

\* text.chars().all(|c| c.is_ascii_uppercase())
valid_text(text) == \A k \in 1..Len(text) : text[k].n > 0 => text[k].ch \in 65..90

\* how often the loop over the characters increments histogram[i]
RECURSIVE increments(_, _, _)
increments(text, i, k) ==
    IF k > Len(text) THEN 0
    ELSE (IF text[k].ch - byte_A = i THEN text[k].n ELSE 0) + increments(text, i, k + 1)

\* the histogram after the loop
histogram_counted(text) == [i \in 0..25 |-> increments(text, i, 1)]

\* the result w of a u32 operation in a build with overflow checks: ok =
\* FALSE for the panic
checked_u32(w) ==
    IF fits_u32(w) THEN [ok |-> TRUE, val |-> w] ELSE [ok |-> FALSE, val |-> wide(0)]

\* v - 1 with overflow checks
checked_dec(v) == IF v >= 1 THEN checked_u32(wide(v - 1)) ELSE [ok |-> FALSE, val |-> wide(0)]

\* a * b of two checked values
checked_mul(a, b) ==
    IF a.ok /\ b.ok THEN checked_u32(wide_mul(a.val, b.val)) ELSE [ok |-> FALSE, val |-> wide(0)]

\* v * (v - 1) with overflow checks
ioc_term_checked(v) == checked_mul(checked_u32(wide(v)), checked_dec(v))

\* the sum of the terms with overflow checks: it panics if a term does, or
\* if a partial sum leaves u32, which is when the whole sum does
ioc_total_checked(hist) ==
    IF \E i \in 0..25 : ~ioc_term_checked(hist[i]).ok
    THEN [ok |-> FALSE, val |-> wide(0)]
    ELSE checked_u32(wide_sum([i \in 1..26 |-> ioc_term_checked(hist[i - 1]).val]))

\* total of the build at hand
ioc_total_built(hist, overflow_checks) ==
    IF overflow_checks THEN ioc_total_checked(hist)
    ELSE [ok |-> TRUE, val |-> ioc_total(hist)]

\* total as f32 / (n * (n - 1.)): the fraction, NaN for 0 / 0
ioc_ratio(total, n) ==
    IF n <= 1 THEN NaN
    ELSE [nan |-> FALSE, num |-> total, den |-> wide_mul(wide(n), wide(n - 1))]

InitIc ==
    /\ ic_text \in IocTexts
    /\ ic_overflow_checks \in BOOLEAN
    /\ ic_histogram = [i \in 0..25 |-> 0]
    /\ ic_total = wide(0)
    /\ ic_score = NaN
    /\ ic_pc = "start"
    /\ IdleRotor
    /\ IdleRefl
    /\ IdlePlug
    /\ IdleEnigma
    /\ IdleFp
    /\ IdleFa
    /\ IdleFr

\* the check of the text and the loop that counts its letters
CountLetters ==
    /\ ic_pc = "start"
    /\ IF valid_text(ic_text)
       THEN /\ ic_histogram' = histogram_counted(ic_text)
            /\ ic_pc' = "counted"
       ELSE /\ ic_histogram' = ic_histogram
            /\ ic_pc' = "panic"
    /\ UNCHANGED <<ic_text, ic_overflow_checks, ic_total, ic_score, notIc>>

\* let total: u32 = histogram.iter().map(|&v| v * (v - 1)).sum()
SumTerms ==
    /\ ic_pc = "counted"
    /\ \E total \in {ioc_total_built(ic_histogram, ic_overflow_checks)} :
           IF total.ok
           THEN /\ ic_total' = total.val
                /\ ic_pc' = "summed"
           ELSE /\ ic_total' = ic_total
                /\ ic_pc' = "panic"
    /\ UNCHANGED <<ic_text, ic_overflow_checks, ic_histogram, ic_score, notIc>>

\* total as f32 / (n * (n - 1.))
Divide ==
    /\ ic_pc = "summed"
    /\ ic_score' = ioc_ratio(ic_total, chars_count(ic_text, 1))
    /\ ic_pc' = "scored"
    /\ UNCHANGED <<ic_text, ic_overflow_checks, ic_histogram, ic_total, notIc>>

NextIc ==
    \/ CountLetters
    \/ SumTerms
    \/ Divide

SpecIc == InitIc /\ [][NextIc]_vars

\* n * (n - 1) as a number
MathTerm(n) == IF n = 0 THEN wide(0) ELSE wide_mul(wide(n), wide(n - 1))

\* the sum of n_i * (n_i - 1) over the letters, as a number
MathSum(hist) == wide_sum([i \in 1..26 |-> MathTerm(hist[i - 1])])

\* N * (N - 1) for the length N of the text
MathPairs == wide_mul(wide(chars_count(ic_text, 1)), wide(chars_count(ic_text, 1) - 1))

\* the text is a hundred times one letter
HundredCopies ==
    /\ chars_count(ic_text, 1) = 100
    /\ \E i \in 0..25 : increments(ic_text, i, 1) = 100

\* C14: for every text of two or more uppercase letters, letters that do
\* not occur included, total is the sum of n_i * (n_i - 1) and the score is
\* that sum over N * (N - 1); a hundred copies of one letter give 9900 and
\* the score 1.0
IoCNumerator ==
    valid_text(ic_text) /\ chars_count(ic_text, 1) >= 2 =>
        /\ ic_pc # "panic"
        /\ ic_pc \in {"summed", "scored"} => ic_total = MathSum(ic_histogram)
        /\ ic_pc = "scored" =>
            /\ ~ic_score.nan
            /\ ic_score.num = MathSum(ic_histogram)
            /\ ic_score.den = MathPairs
        /\ ic_pc = "scored" /\ HundredCopies =>
            /\ ic_total = wide(9900)
            /\ ic_score.num = ic_score.den

----------------------------------------------------------------------------
(* The range of rotor positions and ring settings                          *)

\* a rotor (not what a panic leaves) has both numbers in 0..25
RotorInRange(r) == r.ok => r.rotor_position \in 0..25 /\ r.ring_setting \in 0..25

\* the rotors of a key or of an Enigma, if there is one
KeyInRange(k) ==
    k # Unset =>
        RotorInRange(k.left_rotor) /\ RotorInRange(k.middle_rotor) /\ RotorInRange(k.right_rotor)

\* the key of a result, if there is one
ResultInRange(res) == res # Unset => KeyInRange(res.key)

\* every rotor of every key and every Enigma of the state
AllRotorsInRange ==
    /\ RotorInRange(rotor)
    /\ KeyInRange(ekey) /\ KeyInRange(enigma)
    /\ KeyInRange(fp_key) /\ KeyInRange(fp_best_key) /\ ResultInRange(fp_result)
    /\ \A t \in 1..Len(fa_workers) :
        fa_workers[t].best.best_key.some => KeyInRange(fa_workers[t].best.best_key.key)
    /\ \A t \in 1..Len(fa_results) : fa_results[t].some => KeyInRange(fa_results[t].key)
    /\ \A x \in 1..Len(fa_key_set) : KeyInRange(fa_key_set[x].key)
    /\ KeyInRange(fr_input) /\ KeyInRange(fr_key) /\ ResultInRange(fr_result)
    /\ KeyInRange(frs_key) /\ KeyInRange(frs_enigma)

\* the numbers the caller has given are all in 0..25
ArgsInRange ==
    \A x \in 1..3 : fr_args.positions[x] \in 0..25 /\ fr_args.rings[x] \in 0..25

AdjustInRange == fr_adjust.rotor # "none" => fr_adjust.value \in 0..25

\* the caller's key as the setter has left it
adjusted(key) ==
    IF fr_adjust.rotor = "none" THEN key
    ELSE rotor_written(key, fr_adjust.rotor,
                       rotor_set(rotor_idx(key, fr_adjust.rotor), fr_adjust.field,
                                 fr_adjust.value))

\* C15: every rotor of the state has position and ring setting in 0..25;
\* Rotor::new panics exactly on a number outside 0..25 and no key is made;
\* a setter panics exactly on such a number and the key stays as it was;
\* turnover takes a rotor in range to (position + 1) mod 26; the trials and
\* the compensation of Stage B panic on no key
RotorsInRange ==
    /\ AllRotorsInRange
    /\ fr_pc # "new" /\ ~ArgsInRange => fr_pc = "panic" /\ fr_input = Unset
    /\ fr_pc # "new" /\ ArgsInRange => fr_input # Unset
    /\ fr_pc \notin {"new", "key"} /\ ArgsInRange /\ ~AdjustInRange =>
        fr_pc = "panic" /\ fr_input = key_of_args(fr_args)
    /\ fr_pc \notin {"new", "key"} /\ ArgsInRange /\ AdjustInRange =>
        fr_pc # "panic" /\ fr_input = adjusted(key_of_args(fr_args))
    /\ frs_enigma # Unset =>
        \A which \in {"left", "middle", "right"} :
            turnover(rotor_idx(frs_enigma, which)).rotor_position
                = (rotor_idx(frs_enigma, which).rotor_position + 1) % 26

\* find_ring_settings has returned: the caller had made the rotors with the
\* ring settings 5, 7, 3 and set the right rotor to position 25; the middle
\* rotor's position has gone round past 25 in the compensation (20 + 10),
\* and the right rotor of the last trial's Enigma has gone round past 25 in
\* the decryption
RotorsInRangeWitness ==
    /\ fr_pc = "done"
    /\ fr_args.rings = <<5, 7, 3>>
    /\ fr_adjust = [rotor |-> "right", field |-> "rotor_position", value |-> 25]
    /\ fr_input.right_rotor.rotor_position = 25
    /\ fr_input.middle_rotor.rotor_position = 20
    /\ fr_result.key.middle_rotor.ring_setting = 10
    /\ fr_result.key.middle_rotor.rotor_position = 4
    /\ frs_key.right_rotor.rotor_position = 25
    /\ frs_enigma.right_rotor.rotor_position = 2

----------------------------------------------------------------------------
(* No letter encrypts to itself                                            *)

\* what the next encrypt call on the machine returns for the letter c
next_out(c) == encrypt(enigma, c).out

\* the first machine after a message of the letter A only; the rotors of a
\* machine depend on the number of encrypt calls and not on the letters, so
\* these are the rotor states of all the machines reached
TypedOnlyA == pass = 1 /\ \A k \in 1..Len(message) : message[k] = 65

\* C16: every character either machine has put out differs from the
\* character typed, and whatever uppercase letter is typed next, the machine
\* as it stands returns another letter
NoSelfEncryption ==
    /\ \A k \in 1..Len(encrypted) : encrypted[k] # message[k]
    /\ \A k \in 1..Len(decrypted) : decrypted[k] # encrypted[k]
    /\ TypedOnlyA => \A c \in 65..90 : next_out(c) # c

\* the first machine after a message of the longest length, with plugs,
\* ring settings, reflector C and a middle-rotor step on the way
NoSelfEncryptionWitness ==
    /\ TypedOnlyA
    /\ Len(message) = MaxMsgLen
    /\ ereflector = ReflectorC
    /\ ekey.plugboard.wiring # identity
    /\ ekey.right_rotor.ring_setting # 0
    /\ enigma.middle_rotor.rotor_position # ekey.middle_rotor.rotor_position
    /\ \A k \in 1..Len(message) : encrypted[k] \in 66..90
    /\ \A c \in 65..90 : next_out(c) \in 65..90 \ {c}

====
